---------------------------- MODULE Spec2Model ----------------------------
(***************************************************************************)
(* Model of the merlin-cli command objects (package commands/...): each    *)
(* command's Do(menu, id, arguments) as an operator computing the Response *)
(* it returns, the RPC / repository calls it makes and whether it panics,  *)
(* and a session that types lines and applies the Response.                *)
(*                                                                         *)
(* Go strings are TLA+ strings; a character is a string of length one.     *)
(***************************************************************************)
EXTENDS Integers, Sequences, FiniteSets, TLC

VARIABLES
    menu,       \* the active menu of the session
    prompt,     \* the prompt of the session
    command,    \* name of the command whose Do ran last ("" before any)
    line,       \* the line handed to that Do
    env,        \* what the collaborators answered during that Do
    response,   \* the commands.Response that Do returned
    calls,      \* the RPC / repository / process calls that Do made, in order
    panicked,   \* TRUE once a Do aborted the process with a run-time panic
    callMenu    \* the menu that Do was called with

vars == <<menu, prompt, command, line, env, response, calls, panicked, callMenu>>

-----------------------------------------------------------------------------
(* Bounds of the model *)

\* the largest number of space-separated tokens typed after the command name
MaxArgs == 3

-----------------------------------------------------------------------------
(* Go string primitives *)

At(s, i) == SubSeq(s, i, i)

Range(q) == {q[i] : i \in 1..Len(q)}

UpperChars == "ABCDEFGHIJKLMNOPQRSTUVWXYZ"
LowerChars == "abcdefghijklmnopqrstuvwxyz"
DigitChars == "0123456789"

\* the 1-based position of every character of chars (all distinct)
Positions(chars) ==
    [c \in {At(chars, i) : i \in 1..Len(chars)} |-> CHOOSE i \in 1..Len(chars) : At(chars, i) = c]

UpperIndex == Positions(UpperChars)
DigitIndex == Positions(DigitChars)

\* 0 when c is not in the alphabet of index, else its 1-based position
IndexOf(c, index) == IF c \in DOMAIN index THEN index[c] ELSE 0

LowerChar(c) ==
    IF c \in DOMAIN UpperIndex THEN At(LowerChars, UpperIndex[c]) ELSE c

RECURSIVE ToLower(_)
ToLower(s) == IF s = "" THEN "" ELSE LowerChar(Head(s)) \o ToLower(Tail(s))

\* strings.Contains(s, c) for a single character c
Contains(s, c) == \E i \in 1..Len(s) : At(s, i) = c

\* strings.Index(s, c) + 1 for a single character c that s contains
FirstIndex(s, c) ==
    CHOOSE i \in 1..Len(s) : At(s, i) = c /\ \A j \in 1..(i - 1) : At(s, j) # c

\* strings.Split(s, sep) for a single character sep: the pieces between the
\* separators, empty pieces kept
RECURSIVE SplitOn(_, _)
SplitOn(s, sep) ==
    IF ~Contains(s, sep) THEN <<s>>
    ELSE <<SubSeq(s, 1, FirstIndex(s, sep) - 1)>>
             \o SplitOn(SubSeq(s, FirstIndex(s, sep) + 1, Len(s)), sep)

\* strings.Split(s, " ")
Split(s) == SplitOn(s, " ")

\* strings.Split(s, ":")
SplitColon(s) == SplitOn(s, ":")

\* strings.Join(q, " ")
RECURSIVE Join(_)
Join(q) ==
    IF Len(q) = 0 THEN ""
    ELSE IF Len(q) = 1 THEN q[1]
    ELSE q[1] \o " " \o Join(Tail(q))

IsDigits(s) == s # "" /\ \A i \in 1..Len(s) : IndexOf(At(s, i), DigitIndex) # 0

\* strconv.Atoi(s) returns a nil error: an optional sign and one or more digits
AtoiOK(s) ==
    IF s # "" /\ Head(s) \in {"+", "-"} THEN IsDigits(Tail(s)) ELSE IsDigits(s)

\* the switch every command uses to recognise a help request
IsHelp(arg) == ToLower(arg) \in {"help", "-h", "--help", "?", "/?"}


\* strings.Replace(s, old, "", -1): every non-overlapping occurrence removed
RECURSIVE Remove(_, _)
Remove(s, old) ==
    IF Len(s) < Len(old) THEN s
    ELSE IF SubSeq(s, 1, Len(old)) = old
         THEN Remove(SubSeq(s, Len(old) + 1, Len(s)), old)
         ELSE Head(s) \o Remove(Tail(s), old)

-----------------------------------------------------------------------------
(* Library parsers the commands call *)

\* github.com/mattn/go-shellwords Parse, for lines made of ordinary
\* characters, spaces, backslashes and quotes: words are separated by runs of
\* spaces, a quoted stretch keeps its spaces, and a quote or escape left open
\* at the end of the line is the error "invalid command line string".
\* The parser's variables before the first character:
ShellwordsStart ==
    [args |-> <<>>, buf |-> "", got |-> FALSE, escaped |-> FALSE,
     doubleQuoted |-> FALSE, singleQuoted |-> FALSE]

\* one turn of the parser's loop, on the character r
ShellwordsStep(st, r) ==
    IF st.escaped THEN [st EXCEPT !.buf = @ \o r, !.got = TRUE, !.escaped = FALSE]
    ELSE IF r = "\\" THEN
        IF st.singleQuoted THEN [st EXCEPT !.buf = @ \o r] ELSE [st EXCEPT !.escaped = TRUE]
    ELSE IF r = " " THEN
        IF st.singleQuoted \/ st.doubleQuoted THEN [st EXCEPT !.buf = @ \o r]
        ELSE IF st.got THEN [st EXCEPT !.args = Append(@, st.buf), !.buf = "", !.got = FALSE]
        ELSE st
    ELSE IF r = "\"" /\ ~st.singleQuoted THEN
        [st EXCEPT !.got = @ \/ st.doubleQuoted, !.doubleQuoted = ~@]
    ELSE IF r = "'" /\ ~st.doubleQuoted THEN
        [st EXCEPT !.got = @ \/ st.singleQuoted, !.singleQuoted = ~@]
    ELSE [st EXCEPT !.buf = @ \o r, !.got = TRUE]

\* the parser's loop over the characters of s, from the variables st: the
\* turns for the first half of s, then, from what they leave, the turns for
\* the second half
RECURSIVE ShellwordsFrom(_, _)
ShellwordsFrom(s, st) ==
    IF s = "" THEN st
    ELSE IF Len(s) = 1 THEN ShellwordsStep(st, s)
    ELSE CHOOSE end \in {ShellwordsFrom(SubSeq(s, Len(s) \div 2 + 1, Len(s)), mid) :
                            mid \in {ShellwordsFrom(SubSeq(s, 1, Len(s) \div 2), st)}} : TRUE

\* what Parse returns once the loop is over
ShellwordsEnd(st) ==
    IF st.escaped \/ st.doubleQuoted \/ st.singleQuoted THEN [err |-> TRUE, args |-> <<>>]
    ELSE [err |-> FALSE, args |-> IF st.got THEN Append(st.args, st.buf) ELSE st.args]

ShellwordsParse(str) == ShellwordsEnd(ShellwordsFrom(str, ShellwordsStart))

RECURSIVE DecimalValue(_, _)
DecimalValue(s, acc) ==
    IF s = "" THEN acc
    ELSE DecimalValue(Tail(s), acc * 10 + (IndexOf(Head(s), DigitIndex) - 1))

\* one octet of a dotted-decimal address: 1 to 3 digits, no leading zero, <= 255
IsOctet(f) ==
    /\ IsDigits(f)
    /\ Len(f) <= 3
    /\ (Len(f) > 1 => Head(f) # "0")
    /\ DecimalValue(f, 0) <= 255

\* net.ParseIP(s) # nil.  An IPv6 literal needs a ':'; without one the
\* address parses only as four dotted-decimal octets.
ParseIP(s) ==
    /\ ~Contains(s, ":")
    /\ LET f == SplitOn(s, ".") IN Len(f) = 4 /\ \A i \in 1..4 : IsOctet(f[i])

B64Chars == "ABCDEFGHIJKLMNOPQRSTUVWXYZabcdefghijklmnopqrstuvwxyz0123456789+/"

B64Index == Positions(B64Chars)

B64Val(c) == IndexOf(c, B64Index) - 1

\* base64.StdEncoding.DecodeString: quanta of four characters, '=' padding
\* required and accepted only at the end of the last quantum
RECURSIVE B64Decode(_)
B64Decode(s) ==
    LET bad == [ok |-> FALSE, data |-> <<>>] IN
    IF s = "" THEN [ok |-> TRUE, data |-> <<>>]
    ELSE IF Len(s) < 4 THEN bad
    ELSE LET v1 == B64Val(At(s, 1))
             v2 == B64Val(At(s, 2))
             v3 == B64Val(At(s, 3))
             v4 == B64Val(At(s, 4))
             rest == SubSeq(s, 5, Len(s))
             b1 == v1 * 4 + (v2 \div 16)
             b2 == (v2 % 16) * 16 + (v3 \div 4)
             b3 == (v3 % 4) * 64 + v4
         IN  IF v1 < 0 \/ v2 < 0 THEN bad
             ELSE IF At(s, 3) = "=" THEN
                 IF At(s, 4) = "=" /\ rest = "" THEN [ok |-> TRUE, data |-> <<b1>>] ELSE bad
             ELSE IF v3 < 0 THEN bad
             ELSE IF At(s, 4) = "=" THEN
                 IF rest = "" THEN [ok |-> TRUE, data |-> <<b1, b2>>] ELSE bad
             ELSE IF v4 < 0 THEN bad
             ELSE LET r == B64Decode(rest)
                  IN  IF r.ok THEN [ok |-> TRUE, data |-> <<b1, b2, b3>> \o r.data] ELSE bad

HexChars == "0123456789abcdef"

HexIndex == Positions(HexChars)

HexVal(c) == IndexOf(LowerChar(c), HexIndex) - 1

\* hex.DecodeString: pairs of hex digits; an odd length or another character
\* is an error
RECURSIVE HexDecode(_)
HexDecode(s) ==
    IF s = "" THEN [ok |-> TRUE, data |-> <<>>]
    ELSE IF Len(s) < 2 \/ HexVal(At(s, 1)) < 0 \/ HexVal(At(s, 2)) < 0
         THEN [ok |-> FALSE, data |-> <<>>]
    ELSE LET r == HexDecode(SubSeq(s, 3, Len(s)))
         IN  [ok |-> r.ok,
              data |-> IF r.ok THEN <<HexVal(At(s, 1)) * 16 + HexVal(At(s, 2))>> \o r.data
                       ELSE <<>>]

\* base64.StdEncoding.EncodeToString
RECURSIVE B64Encode(_)
B64Encode(b) ==
    LET ch(v) == At(B64Chars, v + 1) IN
    IF Len(b) = 0 THEN ""
    ELSE IF Len(b) = 1 THEN
        ch(b[1] \div 4) \o ch((b[1] % 4) * 16) \o "=="
    ELSE IF Len(b) = 2 THEN
        ch(b[1] \div 4) \o ch((b[1] % 4) * 16 + (b[2] \div 16)) \o ch((b[2] % 16) * 4) \o "="
    ELSE ch(b[1] \div 4) \o ch((b[1] % 4) * 16 + (b[2] \div 16))
         \o ch((b[2] % 16) * 4 + (b[3] \div 64)) \o ch(b[3] % 64)
         \o B64Encode(SubSeq(b, 4, Len(b)))

-----------------------------------------------------------------------------
(* Menus, messages, help and responses *)

\* the menu.Menu values the commands name
menu_ALLMENUS      == "ALLMENUS"
menu_AGENT         == "AGENT"
menu_LISTENER      == "LISTENER"
menu_LISTENERS     == "LISTENERS"
menu_LISTENERSETUP == "LISTENERSETUP"
menu_MAIN          == "MAIN"
menu_MODULE        == "MODULE"
menu_MODULES       == "MODULES"

\* the menus a session can be in
ConcreteMenus == {menu_AGENT, menu_LISTENER, menu_LISTENERS, menu_LISTENERSETUP, menu_MAIN, menu_MODULE, menu_MODULES}

\* Response.Menu left unset by Do
NoMenu == "NoMenu"

\* Response.Message left unset by Do (a nil *UserMessage)
NoMessage == [level |-> "None", fmt |-> "", args |-> <<>>, table |-> <<>>]

\* message.NewUserMessage(level, fmt.Sprintf(format, args...)): the message
\* keeps its level, its format and the values formatted into it (and, for the
\* jobs command, the rows of the table rendered into it)
NewUserMessage(level, format, args) ==
    [level |-> level, fmt |-> format, args |-> args, table |-> <<>>]

\* message.NewErrorMessage(fmt.Errorf(format, args...))
NewErrorMessage(format, args) ==
    [level |-> "Error", fmt |-> format, args |-> args, table |-> <<>>]

\* help.NewHelp(description, example, notes, usage)
NewHelp(description, example, notes, usage) ==
    [description |-> description, example |-> example, notes |-> notes, usage |-> usage]

\* the zero commands.Response
ZeroResponse == [message |-> NoMessage, menu |-> NoMenu, prompt |-> ""]

\* What one run of a Do amounts to: the Response returned, the RPC, repository
\* and process calls made, the file-system calls made, and whether it panicked
\* (a panic returns nothing).
Return(resp) == [response |-> resp, calls |-> <<>>, fsops |-> <<>>, panic |-> FALSE]

Reply(msg) == Return([ZeroResponse EXCEPT !.message = msg])

Panic == [response |-> ZeroResponse, calls |-> <<>>, fsops |-> <<>>, panic |-> TRUE]

\* the uuid the session hands to every Do
TheID == "c1090dbc-f2f7-4d90-a241-86e0c0217786"

\* response.Message = rpc.<fn>(id, args): one call, whose answer is the
\* server's message (an error message when the call failed)
RPC(fn, id, args, e) ==
    [response |-> [ZeroResponse EXCEPT !.message =
                       IF e.failAt = 1 THEN NewErrorMessage(fn, <<>>)
                       ELSE NewUserMessage("Success", fn, <<>>)],
     calls    |-> <<[fn |-> fn, id |-> id, args |-> args]>>,
     fsops    |-> <<>>,
     panic    |-> FALSE]

\* the message every command builds for a help request
HelpMessage(title, h) ==
    NewUserMessage("Info", "'%s' command help Description: %s Usage: %s Example: %s Notes: %s",
                   <<title, h.description, h.usage, h.example, h.notes>>)

\* what the collaborators answer during one Do
\*   failAt : which of the RPC / repository calls of this Do fails (0: none)
\*   proc   : how the local process of '!' ends
\*   file   : what the path given to os.Stat / os.ReadFile is
\*   data   : the contents of that file
\*   jobs   : the unfinished jobs the server knows
\*   options: the options of the listener being set up, as the repository holds them
DefaultEnv == [failAt |-> 0, proc |-> "ok", file |-> "absent", data |-> "",
               jobs |-> <<>>, options |-> [Name |-> "Default", Port |-> "443"]]

-----------------------------------------------------------------------------
(* commands/all/back *)

back_help == NewHelp("Go to the main menu",
                     "Merlin[agent][c1090dbc-f2f7-4d90-a241-86e0c0217786]> back",
                     "This command is an alias for the 'main' command",
                     "back")

\* the prompts, without their colour escapes
PromptListeners == "Merlin[listeners]> "
PromptModules   == "Merlin[modules]> "
PromptMain      == "Merlin> "

\* back with a single fixed target, the main menu: the fault C9 rules out
back_Do_alwaysMain(m, id, arguments, e) ==
    LET args == Split(arguments) IN
    IF Len(args) > 1 /\ IsHelp(args[2]) THEN Reply(HelpMessage("back", back_help))
    ELSE Return([ZeroResponse EXCEPT !.menu = menu_MAIN, !.prompt = PromptMain])

\* back announcing the menu it goes to: the fault C10 rules out
back_Do_announce(m, id, arguments, e) ==
    LET args == Split(arguments)
        said == NewUserMessage("Info", "going back", <<>>)
    IN
    IF Len(args) > 1 /\ IsHelp(args[2]) THEN Reply(HelpMessage("back", back_help))
    ELSE IF m \in {menu_LISTENERSETUP, menu_LISTENER}
         THEN Return([message |-> said, menu |-> menu_LISTENERS, prompt |-> PromptListeners])
    ELSE IF m = menu_MODULE
         THEN Return([message |-> said, menu |-> menu_MODULES, prompt |-> PromptModules])
    ELSE Return([message |-> said, menu |-> menu_MAIN, prompt |-> PromptMain])

\* back with LISTENERS in the case of the listener menus, so that back from
\* LISTENERS stays there: the fault C24 rules out
back_Do_listenersLoop(m, id, arguments, e) ==
    LET args == Split(arguments) IN
    IF Len(args) > 1 /\ IsHelp(args[2]) THEN Reply(HelpMessage("back", back_help))
    ELSE IF m \in {menu_LISTENERSETUP, menu_LISTENER, menu_LISTENERS}
         THEN Return([ZeroResponse EXCEPT !.menu = menu_LISTENERS, !.prompt = PromptListeners])
    ELSE IF m = menu_MODULE
         THEN Return([ZeroResponse EXCEPT !.menu = menu_MODULES, !.prompt = PromptModules])
    ELSE Return([ZeroResponse EXCEPT !.menu = menu_MAIN, !.prompt = PromptMain])

\* back whose default target is the sentinel of the menus list: the fault C11
\* rules out
back_Do_toAllMenus(m, id, arguments, e) ==
    LET args == Split(arguments) IN
    IF Len(args) > 1 /\ IsHelp(args[2]) THEN Reply(HelpMessage("back", back_help))
    ELSE IF m \in {menu_LISTENERSETUP, menu_LISTENER}
         THEN Return([ZeroResponse EXCEPT !.menu = menu_LISTENERS, !.prompt = PromptListeners])
    ELSE IF m = menu_MODULE
         THEN Return([ZeroResponse EXCEPT !.menu = menu_MODULES, !.prompt = PromptModules])
    ELSE Return([ZeroResponse EXCEPT !.menu = menu_ALLMENUS, !.prompt = PromptMain])

back_Do(m, id, arguments, e) ==
    LET args == Split(arguments) IN
    IF Len(args) > 1 /\ IsHelp(args[2]) THEN Reply(HelpMessage("back", back_help))
    ELSE IF m \in {menu_LISTENERSETUP, menu_LISTENER}
         THEN Return([ZeroResponse EXCEPT !.menu = menu_LISTENERS, !.prompt = PromptListeners])
    ELSE IF m = menu_MODULE
         THEN Return([ZeroResponse EXCEPT !.menu = menu_MODULES, !.prompt = PromptModules])
    ELSE Return([ZeroResponse EXCEPT !.menu = menu_MAIN, !.prompt = PromptMain])

back_Menu(m) == TRUE

-----------------------------------------------------------------------------
(* commands/all/exclamation *)

exclamation_help == NewHelp("Execute a command on the local system",
                            "Merlin> ! ip a show ens32",
                            "Include a space after the exclamation point. This command is useful so that you can execute system commands without having to leave the CLI.",
                            "! command [args]")

\* the command's menus list and the loop every command but back and jobs
\* uses for Menu(m)
InMenus(menus, m) == \E i \in 1..Len(menus) : menus[i] = m \/ menus[i] = menu_ALLMENUS

exclamation_Menu(m) == InMenus(<<menu_ALLMENUS>>, m)

\* ! reporting Success whatever CombinedOutput returned: the fault C20 rules
\* out
exclamation_Do_alwaysSuccess(m, id, arguments, e) ==
    LET p == ShellwordsParse(arguments)
        args == p.args
    IN
    IF p.err THEN Reply(NewErrorMessage("there was an error parsing the arguments: %s", <<"invalid command line string">>))
    ELSE IF Len(args) < 2 THEN
        Reply(NewUserMessage("Info", "'%s' command requires at least one argument %s", <<"!", exclamation_help.usage>>))
    ELSE IF IsHelp(args[2]) THEN Reply(HelpMessage("!", exclamation_help))
    ELSE
        [response |-> [ZeroResponse EXCEPT !.message =
                          NewUserMessage("Success",
                                         "Executed '%s' command on the local system with a process ID of %d %s",
                                         <<args[2], "stdout">>)],
         calls    |-> <<[fn |-> "exec.Command", id |-> "", args |-> SubSeq(args, 2, Len(args))]>>,
         fsops    |-> <<>>,
         panic    |-> FALSE]

exclamation_Do(m, id, arguments, e) ==
    LET p == ShellwordsParse(arguments)
        args == p.args
    IN
    IF p.err THEN Reply(NewErrorMessage("there was an error parsing the arguments: %s", <<"invalid command line string">>))
    ELSE IF Len(args) < 2 THEN
        Reply(NewUserMessage("Info", "'%s' command requires at least one argument %s", <<"!", exclamation_help.usage>>))
    ELSE IF IsHelp(args[2]) THEN Reply(HelpMessage("!", exclamation_help))
    ELSE
        [response |-> [ZeroResponse EXCEPT !.message =
                          NewUserMessage(IF e.proc = "ok" THEN "Success" ELSE "Warn",
                                         IF e.proc = "notstarted"
                                         THEN "Executed '%s' command on the local system %s"
                                         ELSE "Executed '%s' command on the local system with a process ID of %d %s",
                                         <<args[2], "stdout">>)],
         calls    |-> <<[fn |-> "exec.Command", id |-> "", args |-> SubSeq(args, 2, Len(args))]>>,
         fsops    |-> <<>>,
         panic    |-> FALSE]

-----------------------------------------------------------------------------
(* commands/agent/all/touch *)

touch_help == NewHelp("Copy a file's timestamp to another file",
                      "Merlin[agent][c1090dbc-f2f7-4d90-a241-86e0c0217786]> touch /etc/passwd /tmp/deleteMe.txt",
                      "This technique is also known as timestomp",
                      "touch sourceFilePath destinationFilePath")

touch_Menu(m) == InMenus(<<menu_AGENT>>, m)

touch_Do(m, id, arguments, e) ==
    LET p == ShellwordsParse(arguments)
        args == p.args
    IN
    IF p.err THEN Reply(NewErrorMessage("there was an error parsing the arguments: %s", <<"invalid command line string">>))
    ELSE IF Len(args) > 1 /\ IsHelp(args[2]) THEN Reply(HelpMessage("touch", touch_help))
    ELSE IF Len(args) < 3 THEN
        Reply(NewErrorMessage("'%s' command requires two arguments %s", <<"touch", touch_help.usage>>))
    ELSE RPC("Touch", id, Tail(args), e)

-----------------------------------------------------------------------------
(* commands/agent/all/listener *)

listener_help == NewHelp("Start, stop, or list peer-to-peer listeners on the Agent",
                         "",
                         "Use '-h' after the subcommand to get more information",
                         "listener {list|start|stop} [protocol] [address]")

listener_Menu(m) == InMenus(<<menu_AGENT>>, m)

listener_List(id, arguments, e) ==
    LET h == NewHelp("Instruct the Agent to return a list of its peer-to-peer listeners",
                     "Merlin[agent][c1090dbc-f2f7-4d90-a241-86e0c0217786]> listener list",
                     "The string [::] signifies all IP interfaces",
                     "listener list")
        args == Split(arguments)
    IN
    IF Len(args) > 2 /\ IsHelp(args[3]) THEN Reply(HelpMessage("listener list", h))
    ELSE RPC("Listener", id, Tail(args), e)

\* listener start|stop without the net.ParseIP validation: the fault C7 rules out
listener_Start_noParseIP(id, arguments, e) ==
    LET args == Split(arguments)
        sub == ToLower(args[2])
    IN
    IF Len(args) < 2 THEN
        Reply(NewUserMessage("Info", "'%s' command requires at least one argument %s", <<"listener", listener_help.usage>>))
    ELSE IF sub \notin {"start", "stop"} THEN
        Reply(NewErrorMessage("unknown listener command '%s' %s", <<args[2], listener_help.usage>>))
    ELSE IF Len(args) > 2 /\ IsHelp(args[3]) THEN Reply(HelpMessage("listener " \o sub, listener_help))
    ELSE IF Len(args) < 4 THEN
        Reply(NewUserMessage("Info", "'%s %s' command requires two arguments %s", <<"listener", sub, listener_help.usage>>))
    ELSE IF ToLower(args[3]) \notin {"smb", "tcp", "udp"} THEN
        Reply(NewErrorMessage("'%s' is not a valid protocol", <<args[3]>>))
    ELSE IF ToLower(args[3]) \in {"tcp", "udp"} /\ Len(SplitColon(args[4])) # 2 THEN
        Reply(NewErrorMessage("'%s' is not a valid IP address and port: %s", <<args[4], listener_help.usage>>))
    ELSE RPC("Listener", id, Tail(args), e)

listener_Start(id, arguments, e) ==
    LET args == Split(arguments)
        sub == ToLower(args[2])
        h == IF sub = "start"
             THEN NewHelp("Instruct the Agent to start a peer-to-peer listener",
                          "Merlin[agent][c1090dbc-f2f7-4d90-a241-86e0c0217786]> listener start tcp 127.0.0.1:7777",
                          "Use '0.0.0.0' for all IPv4 interfaces. Only provide the name of the pipe for the SMB listener (e.g., merlinPipe)",
                          "listener start {smb|tcp|udp} {namedPipe|<interface:port>}")
             ELSE NewHelp("Instruct the Agent to stop a peer-to-peer listener",
                          "Merlin[agent][c1090dbc-f2f7-4d90-a241-86e0c0217786]> listener stop tcp 127.0.0.1:7777",
                          "",
                          "listener stop {smb|tcp|udp} {namedPipe|<interface:port>}")
    IN
    IF Len(args) < 2 THEN
        Reply(NewUserMessage("Info", "'%s' command requires at least one argument %s", <<"listener", listener_help.usage>>))
    ELSE IF sub \notin {"start", "stop"} THEN
        Reply(NewErrorMessage("unknown listener command '%s' %s", <<args[2], listener_help.usage>>))
    ELSE IF Len(args) > 2 /\ IsHelp(args[3]) THEN Reply(HelpMessage("listener " \o sub, h))
    ELSE IF Len(args) < 4 THEN
        Reply(NewUserMessage("Info", "'%s %s' command requires two arguments %s", <<"listener", sub, h.usage>>))
    ELSE IF ToLower(args[3]) \notin {"smb", "tcp", "udp"} THEN
        Reply(NewErrorMessage("'%s' is not a valid protocol", <<args[3]>>))
    ELSE IF ToLower(args[3]) \in {"tcp", "udp"} /\ Len(SplitColon(args[4])) # 2 THEN
        Reply(NewErrorMessage("'%s' is not a valid IP address and port: %s", <<args[4], h.usage>>))
    ELSE IF ToLower(args[3]) \in {"tcp", "udp"} /\ ~ParseIP(SplitColon(args[4])[1]) THEN
        Reply(NewErrorMessage("'%s' is not a valid IP address", <<SplitColon(args[4])[1]>>))
    ELSE RPC("Listener", id, Tail(args), e)

listener_Do(m, id, arguments, e) ==
    LET args == Split(arguments) IN
    IF Len(args) < 2 THEN
        Reply(NewUserMessage("Info", "'%s' command requires at least one argument %s", <<"listener", listener_help.usage>>))
    ELSE IF ToLower(args[2]) = "list" THEN listener_List(id, arguments, e)
    ELSE IF ToLower(args[2]) \in {"start", "stop"} THEN listener_Start(id, arguments, e)
    ELSE IF IsHelp(args[2]) THEN Reply(HelpMessage("listener", listener_help))
    ELSE Reply(NewUserMessage("Info", "%s", <<listener_help.usage>>))

-----------------------------------------------------------------------------
(* commands/agent/windows/token *)

token_help == NewHelp("Interact with Windows access tokens",
                      "",
                      "Merlin keeps track of when a Windows access token was created or stolen.",
                      "token {make|privs|rev2self|steal|whoami} [options]")

token_Menu(m) == InMenus(<<menu_AGENT>>, m)

token_Make(id, arguments, e) ==
    LET h == NewHelp("Create a new Windows access token",
                     "Merlin[agent][c1090dbc-f2f7-4d90-a241-86e0c0217786]> token make ACME\\\\Administrator S3cretPassw0rd",
                     "Tokens are created with the Windows LogonUserW API call.",
                     "token make DOMAIN\\USERNAME PASSWORD")
        args == Split(arguments)
    IN
    IF Len(args) > 2 /\ IsHelp(args[3]) THEN Reply(HelpMessage("token make", h))
    ELSE IF Len(args) < 4 THEN
        Reply(NewUserMessage("Info", "'%s %s' command requires two arguments %s", <<"token", "make", h.usage>>))
    ELSE RPC("Token", id, Tail(args), e)

token_Privs(id, arguments, e) ==
    LET h == NewHelp("Enumerate token privileges for the current or remote process",
                     "Merlin[agent][c1090dbc-f2f7-4d90-a241-86e0c0217786]> token privs",
                     "",
                     "token privs [PID]")
        args == Split(arguments)
    IN
    IF Len(args) > 2 /\ IsHelp(args[3]) THEN Reply(HelpMessage("token privs", h))
    ELSE IF Len(args) > 3 /\ ~AtoiOK(args[3]) THEN
        Reply(NewErrorMessage("there was an error converting '%s' to an integer: %s", <<args[3], "invalid syntax">>))
    ELSE RPC("Token", id, Tail(args), e)

token_Rev2Self(id, arguments, e) ==
    LET h == NewHelp("Revert the thread impersonation token to the process token",
                     "Merlin[agent][c1090dbc-f2f7-4d90-a241-86e0c0217786]> token rev2self",
                     "Leverages the RevertToSelf Windows API function. There is 'rev2sef' command alias.",
                     "rev2self")
        args == Split(arguments)
    IN
    IF Len(args) > 2 /\ IsHelp(args[3]) THEN Reply(HelpMessage("token rev2self", h))
    ELSE RPC("Token", id, Tail(args), e)

\* token steal without the strconv.Atoi validation: the fault C5 rules out
token_Steal_noAtoi(id, arguments, e) ==
    LET args == Split(arguments) IN
    IF Len(args) < 3 THEN
        Reply(NewUserMessage("Info", "'%s %s' command requires one argument %s", <<"token", "steal", "token steal PID">>))
    ELSE IF IsHelp(args[3]) THEN Reply(HelpMessage("token steal", token_help))
    ELSE RPC("Token", id, Tail(args), e)

token_Steal(id, arguments, e) ==
    LET h == NewHelp("Steal and use a Windows access token from another process",
                     "Merlin[agent][c1090dbc-f2f7-4d90-a241-86e0c0217786]> token steal 1320",
                     "The steal command obtains a handle to a remote process' access token, duplicates it through the DuplicateTokenEx Windows API, and subsequently uses it to perform future post-exploitation commands.",
                     "token steal PID")
        args == Split(arguments)
    IN
    IF Len(args) < 3 THEN
        Reply(NewUserMessage("Info", "'%s %s' command requires one argument %s", <<"token", "steal", h.usage>>))
    ELSE IF IsHelp(args[3]) THEN Reply(HelpMessage("token steal", h))
    ELSE IF ~AtoiOK(args[3]) THEN
        Reply(NewErrorMessage("there was an error converting '%s' to an integer: %s", <<args[3], "invalid syntax">>))
    ELSE RPC("Token", id, Tail(args), e)

token_Whoami(id, arguments, e) ==
    LET h == NewHelp("Return information about the process and thread Windows access tokens",
                     "",
                     "The whoami command leverages the Windows GetTokenInformaion API call to return information about both the process and thread Windows access token.",
                     "token whoami")
        args == Split(arguments)
    IN
    IF Len(args) > 2 /\ IsHelp(args[3]) THEN Reply(HelpMessage("token whoami", h))
    ELSE RPC("Token", id, Tail(args), e)

token_Do(m, id, arguments, e) ==
    LET args == Split(arguments) IN
    IF Len(args) < 2 THEN
        Reply(NewUserMessage("Info", "'%s' command requires at least one argument %s", <<"token", token_help.usage>>))
    ELSE IF IsHelp(args[2]) THEN Reply(HelpMessage("token", token_help))
    ELSE IF ToLower(args[2]) = "make" THEN token_Make(id, arguments, e)
    ELSE IF ToLower(args[2]) = "privs" THEN token_Privs(id, arguments, e)
    ELSE IF ToLower(args[2]) = "rev2self" THEN token_Rev2Self(id, arguments, e)
    ELSE IF ToLower(args[2]) = "steal" THEN token_Steal(id, arguments, e)
    ELSE IF ToLower(args[2]) = "whoami" THEN token_Whoami(id, arguments, e)
    ELSE Reply(NewUserMessage("Info", "%s", <<token_help.usage>>))

-----------------------------------------------------------------------------
(* commands/agent/windows/netstat *)

netstat_help == NewHelp("Get a list of network connections",
                        "Merlin[agent][c1090dbc-f2f7-4d90-a241-86e0c0217786]> netstat",
                        "This command is only available on Windows. It uses the Windows API to enumerate network connections and listening ports.",
                        "netstat [-p tcp|udp]")

netstat_Menu(m) == InMenus(<<menu_AGENT>>, m)

netstat_Do(m, id, arguments, e) ==
    LET args == Split(arguments) IN
    IF Len(args) > 1 /\ IsHelp(args[2]) THEN Reply(HelpMessage("netstat", netstat_help))
    ELSE IF Len(args) > 1 /\ ToLower(args[2]) = "-p" /\ Len(args) < 2 THEN
        Reply(NewUserMessage("Warn", "Invalid argument for -p. Valid arguments are 'tcp' or 'udp'.", <<>>))
    ELSE IF Len(args) > 1 /\ ToLower(args[2]) # "-p" THEN
        Reply(NewUserMessage("Info", "%s", <<netstat_help.usage>>))
    ELSE RPC("Netstat", id, Tail(args), e)

-----------------------------------------------------------------------------
(* commands/agent/windows/sharpgen *)

sharpgen_help == NewHelp("Compile & execute arbitrary C# code.",
                         "Merlin[agent][c1090dbc-f2f7-4d90-a241-86e0c0217786]> sharpgen \"new SharpSploit.Credentials.Tokens().GetSystem()\"",
                         "This command only works on Windows.",
                         "sharpgen <C# code> [spawnto] [spawnto_args]")

sharpgen_Menu(m) == InMenus(<<menu_AGENT>>, m)

sharpgen_Do(m, id, arguments, e) ==
    LET p == ShellwordsParse(arguments)
        args == p.args
    IN
    IF p.err THEN Reply(NewErrorMessage("there was an error parsing the arguments: %s", <<"invalid command line string">>))
    ELSE IF Len(args) < 2 THEN
        Reply(NewUserMessage("Info", "'%s' command requires at least one argument %s", <<"sharpgen", sharpgen_help.usage>>))
    ELSE IF IsHelp(args[2]) THEN Reply(HelpMessage("sharpgen", sharpgen_help))
    ELSE IF Len(args) < 3 THEN
        RPC("SharpGen", id, Tail(Append(args, "C:\\Windows\\System32\\dllhost.exe")), e)
    ELSE RPC("SharpGen", id, Tail(args), e)

-----------------------------------------------------------------------------
(* commands/agent/windows/execute_assembly *)

execute_assembly_help ==
    NewHelp("Execute .NET assembly as shellcode in a child process",
            "Merlin[agent][c1090dbc-f2f7-4d90-a241-86e0c0217786]> execute-assembly Seatbelt.exe \"DotNet IdleTime\" \"C:\\\\Windows\\\\System32\\\\WerFault.exe\" /?",
            "Uses go-donut to convert a .NET assembly into shellcode and then uses the windows/x64/go/exec/createProcess Merlin module to execute the shellcode.",
            "execute-assembly assemblyPath [assemblyArguments] [spawnToPath] [spawnToArguments]")

execute_assembly_Menu(m) == InMenus(<<menu_AGENT>>, m)

\* the printable ASCII characters of codes 32..95 and 97..126 (a TLA+ string
\* cannot hold the character of code 96)
AsciiLow == " !\"#$%&'()*+,-./0123456789:;<=>?@ABCDEFGHIJKLMNOPQRSTUVWXYZ[\\]^_"
AsciiHigh == "abcdefghijklmnopqrstuvwxyz{|}~"

AsciiLowIndex == Positions(AsciiLow)
AsciiHighIndex == Positions(AsciiHigh)

CharCode(c) ==
    IF IndexOf(c, AsciiLowIndex) # 0 THEN IndexOf(c, AsciiLowIndex) + 31
    ELSE IndexOf(c, AsciiHighIndex) + 96

\* []byte(s)
RECURSIVE Bytes(_)
Bytes(s) == IF s = "" THEN <<>> ELSE <<CharCode(Head(s))>> \o Bytes(Tail(s))

\* execute-assembly sending the spawnTo path before the assembly arguments:
\* the fault C29 rules out
execute_assembly_Do_swapped(m, id, arguments, e) ==
    LET p == ShellwordsParse(arguments)
        args == p.args
        params == IF Len(args) > 2 THEN args[3] ELSE ""
        spawnTo == IF Len(args) > 3 THEN args[4] ELSE "C:\\WIndows\\System32\\dllhost.exe"
        spawnToArgs == IF Len(args) > 4 THEN args[5] ELSE ""
    IN
    IF p.err THEN Reply(NewErrorMessage("there was an error parsing the arguments: %s", <<"invalid command line string">>))
    ELSE IF Len(args) < 2 THEN
        Reply(NewUserMessage("Info", "'%s' command requires at least one argument %s", <<"execute-assembly", execute_assembly_help.usage>>))
    ELSE IF IsHelp(args[2]) THEN Reply(HelpMessage("execute-assembly", execute_assembly_help))
    ELSE IF e.file = "absent" THEN
        [Reply(NewErrorMessage("the file path does not exist: %s", <<args[2]>>)) EXCEPT !.fsops = <<"Stat">>]
    ELSE IF e.file # "file" THEN
        [Reply(NewErrorMessage("there was an error reading the file at %s: %s", <<args[2], e.file>>))
            EXCEPT !.fsops = <<"Stat", "ReadFile">>]
    ELSE [RPC("ExecuteAssembly", id, <<B64Encode(Bytes(e.data)), spawnTo, params, spawnToArgs>>, e)
            EXCEPT !.fsops = <<"Stat", "ReadFile">>]

execute_assembly_Do(m, id, arguments, e) ==
    LET p == ShellwordsParse(arguments)
        args == p.args
        params == IF Len(args) > 2 THEN args[3] ELSE ""
        spawnTo == IF Len(args) > 3 THEN args[4] ELSE "C:\\WIndows\\System32\\dllhost.exe"
        spawnToArgs == IF Len(args) > 4 THEN args[5] ELSE ""
    IN
    IF p.err THEN Reply(NewErrorMessage("there was an error parsing the arguments: %s", <<"invalid command line string">>))
    ELSE IF Len(args) < 2 THEN
        Reply(NewUserMessage("Info", "'%s' command requires at least one argument %s", <<"execute-assembly", execute_assembly_help.usage>>))
    ELSE IF IsHelp(args[2]) THEN Reply(HelpMessage("execute-assembly", execute_assembly_help))
    ELSE IF e.file = "absent" THEN
        [Reply(NewErrorMessage("the file path does not exist: %s", <<args[2]>>)) EXCEPT !.fsops = <<"Stat">>]
    ELSE IF e.file # "file" THEN
        [Reply(NewErrorMessage("there was an error reading the file at %s: %s", <<args[2], e.file>>))
            EXCEPT !.fsops = <<"Stat", "ReadFile">>]
    ELSE [RPC("ExecuteAssembly", id, <<B64Encode(Bytes(e.data)), params, spawnTo, spawnToArgs>>, e)
            EXCEPT !.fsops = <<"Stat", "ReadFile">>]

-----------------------------------------------------------------------------
(* commands/multi/jobs *)

jobs_help == NewHelp("Display all unfinished jobs",
                     "Merlin> jobs",
                     "Only the first 30 characters of the COMMAND are displayed",
                     "jobs")

\* jobs answering for every menu: the fault C12 rules out
jobs_Menu_everywhere(m) == TRUE

jobs_Menu(m) == \E i \in 1..2 : <<menu_AGENT, menu_MAIN>>[i] = m

\* one call of a collaborator that answers with an error or a value
Call(fn, id, args) == [fn |-> fn, id |-> id, args |-> args]

\* jobs asking a second time when the first call failed: the fault C21 rules
\* out
jobs_Do_retry(m, id, arguments, e) ==
    LET args == Split(arguments)
        cell(job) == IF Len(job.Command) < 30 THEN job.Command ELSE SubSeq(job.Command, 1, 30)
        agentRow(job) == <<job.ID, cell(job), job.Status, job.Created, job.Sent>>
        allRow(job) == <<job.AgentID, job.ID, cell(job), job.Status, job.Created, job.Sent>>
        fn == IF m = menu_AGENT THEN "GetAgentActiveJobs" ELSE "GetAllActiveJobs"
        ask == Call(fn, IF m = menu_AGENT THEN id ELSE "", <<>>)
        header == IF m = menu_AGENT THEN <<"ID", "Command", "Status", "Created", "Sent">>
                  ELSE <<"Agent", "ID", "Command", "Status", "Created", "Sent">>
        rows == [i \in 1..Len(e.jobs) |->
                    IF m = menu_AGENT THEN agentRow(e.jobs[i]) ELSE allRow(e.jobs[i])]
    IN
    IF Len(args) > 1 /\ IsHelp(args[2]) THEN Reply(HelpMessage("jobs", jobs_help))
    ELSE IF e.failAt = 1 THEN
        [Reply(NewErrorMessage(fn, <<>>)) EXCEPT !.calls = <<ask, ask>>]
    ELSE
        [Reply([NewUserMessage("Plain", "%s", <<"table">>) EXCEPT !.table = <<header>> \o rows])
            EXCEPT !.calls = <<ask>>]

\* jobs cutting the command one character short: the fault C22 rules out
jobs_Do_cut29(m, id, arguments, e) ==
    LET args == Split(arguments)
        cell(job) == IF Len(job.Command) < 30 THEN job.Command ELSE SubSeq(job.Command, 1, 29)
        agentRow(job) == <<job.ID, cell(job), job.Status, job.Created, job.Sent>>
        allRow(job) == <<job.AgentID, job.ID, cell(job), job.Status, job.Created, job.Sent>>
        fn == IF m = menu_AGENT THEN "GetAgentActiveJobs" ELSE "GetAllActiveJobs"
        header == IF m = menu_AGENT THEN <<"ID", "Command", "Status", "Created", "Sent">>
                  ELSE <<"Agent", "ID", "Command", "Status", "Created", "Sent">>
        rows == [i \in 1..Len(e.jobs) |->
                    IF m = menu_AGENT THEN agentRow(e.jobs[i]) ELSE allRow(e.jobs[i])]
    IN
    IF Len(args) > 1 /\ IsHelp(args[2]) THEN Reply(HelpMessage("jobs", jobs_help))
    ELSE IF e.failAt = 1 THEN
        [Reply(NewErrorMessage(fn, <<>>))
            EXCEPT !.calls = <<Call(fn, IF m = menu_AGENT THEN id ELSE "", <<>>)>>]
    ELSE
        [Reply([NewUserMessage("Plain", "%s", <<"table">>) EXCEPT !.table = <<header>> \o rows])
            EXCEPT !.calls = <<Call(fn, IF m = menu_AGENT THEN id ELSE "", <<>>)>>]

\* jobs asking for the agent's jobs and then for all jobs: the fault C15
\* rules out
jobs_Do_both(m, id, arguments, e) ==
    LET args == Split(arguments)
        asked == <<Call("GetAgentActiveJobs", id, <<>>), Call("GetAllActiveJobs", "", <<>>)>>
    IN
    IF Len(args) > 1 /\ IsHelp(args[2]) THEN Reply(HelpMessage("jobs", jobs_help))
    ELSE IF e.failAt = 1 THEN
        [Reply(NewErrorMessage("GetAgentActiveJobs", <<>>)) EXCEPT !.calls = <<asked[1]>>]
    ELSE [Reply([NewUserMessage("Plain", "%s", <<"table">>) EXCEPT !.table = <<>>])
            EXCEPT !.calls = asked]

jobs_Do(m, id, arguments, e) ==
    LET args == Split(arguments)
        cell(job) == IF Len(job.Command) < 30 THEN job.Command ELSE SubSeq(job.Command, 1, 30)
        agentRow(job) == <<job.ID, cell(job), job.Status, job.Created, job.Sent>>
        allRow(job) == <<job.AgentID, job.ID, cell(job), job.Status, job.Created, job.Sent>>
        fn == IF m = menu_AGENT THEN "GetAgentActiveJobs" ELSE "GetAllActiveJobs"
        header == IF m = menu_AGENT THEN <<"ID", "Command", "Status", "Created", "Sent">>
                  ELSE <<"Agent", "ID", "Command", "Status", "Created", "Sent">>
        rows == [i \in 1..Len(e.jobs) |->
                    IF m = menu_AGENT THEN agentRow(e.jobs[i]) ELSE allRow(e.jobs[i])]
    IN
    IF Len(args) > 1 /\ IsHelp(args[2]) THEN Reply(HelpMessage("jobs", jobs_help))
    ELSE IF e.failAt = 1 THEN
        [Reply(NewErrorMessage(fn, <<>>))
            EXCEPT !.calls = <<Call(fn, IF m = menu_AGENT THEN id ELSE "", <<>>)>>]
    ELSE
        [Reply([NewUserMessage("Plain", "%s", <<"table">>) EXCEPT !.table = <<header>> \o rows])
            EXCEPT !.calls = <<Call(fn, IF m = menu_AGENT THEN id ELSE "", <<>>)>>]

-----------------------------------------------------------------------------
(* commands/module/reload *)

reload_help == NewHelp("reload the module to reset the module's state",
                       "Merlin[module][Invoke-Mimikatz]> reload",
                       "",
                       "reload")

reload_Menu(m) == InMenus(<<menu_MODULE>>, m)

\* reload leaving the module for the modules menu once it is done: the fault
\* C25 rules out
reload_Do_toModules(m, id, arguments, e) ==
    LET args == Split(arguments)
        get == Call("module.Get", id, <<>>)
        upd == Call("module.UpdateOption", id, <<"agent", "">>)
        rel == Call("module.Reload", id, <<>>)
    IN
    IF Len(args) > 1 /\ IsHelp(args[2]) THEN Reply(HelpMessage("reload", reload_help))
    ELSE IF e.failAt = 1 THEN
        [Reply(NewErrorMessage("pkg/cli/commands/reload.DoModule(): there was an error getting module ID %s from the repository: %s", <<id, "err">>))
            EXCEPT !.calls = <<get>>]
    ELSE IF e.failAt = 2 THEN
        [Reply(NewErrorMessage("pkg/cli/commands/reload.DoModule(): there was an error resetting the agent ID: %s", <<"err">>))
            EXCEPT !.calls = <<get, upd>>]
    ELSE IF e.failAt = 3 THEN
        [Reply(NewErrorMessage("pkg/cli/commands/reload.DoModule(): there was an error reloading the module: %s", <<"err">>))
            EXCEPT !.calls = <<get, upd, rel>>]
    ELSE [Return([message |-> NewUserMessage("Success", "The '%s' module was reloaded", <<"module">>),
                  menu |-> menu_MODULES, prompt |-> PromptModules])
            EXCEPT !.calls = <<get, upd, rel>>]

\* reload going on to the next step after a step failed: the fault C28 rules
\* out
reload_Do_goesOn(m, id, arguments, e) ==
    LET args == Split(arguments)
        get == Call("module.Get", id, <<>>)
        upd == Call("module.UpdateOption", id, <<"agent", "">>)
        rel == Call("module.Reload", id, <<>>)
    IN
    IF Len(args) > 1 /\ IsHelp(args[2]) THEN Reply(HelpMessage("reload", reload_help))
    ELSE IF e.failAt = 1 THEN
        [Reply(NewErrorMessage("pkg/cli/commands/reload.DoModule(): there was an error getting module ID %s from the repository: %s", <<id, "err">>))
            EXCEPT !.calls = <<get>>]
    ELSE IF e.failAt = 2 THEN
        [Reply(NewErrorMessage("pkg/cli/commands/reload.DoModule(): there was an error reloading the module: %s", <<"err">>))
            EXCEPT !.calls = <<get, upd, rel>>]
    ELSE IF e.failAt = 3 THEN
        [Reply(NewErrorMessage("pkg/cli/commands/reload.DoModule(): there was an error reloading the module: %s", <<"err">>))
            EXCEPT !.calls = <<get, upd, rel>>]
    ELSE [Reply(NewUserMessage("Success", "The '%s' module was reloaded", <<"module">>))
            EXCEPT !.calls = <<get, upd, rel>>]

reload_Do(m, id, arguments, e) ==
    LET args == Split(arguments)
        get == Call("module.Get", id, <<>>)
        upd == Call("module.UpdateOption", id, <<"agent", "">>)
        rel == Call("module.Reload", id, <<>>)
    IN
    IF Len(args) > 1 /\ IsHelp(args[2]) THEN Reply(HelpMessage("reload", reload_help))
    ELSE IF e.failAt = 1 THEN
        [Reply(NewErrorMessage("pkg/cli/commands/reload.DoModule(): there was an error getting module ID %s from the repository: %s", <<id, "err">>))
            EXCEPT !.calls = <<get>>]
    ELSE IF e.failAt = 2 THEN
        [Reply(NewErrorMessage("pkg/cli/commands/reload.DoModule(): there was an error resetting the agent ID: %s", <<"err">>))
            EXCEPT !.calls = <<get, upd>>]
    ELSE IF e.failAt = 3 THEN
        [Reply(NewErrorMessage("pkg/cli/commands/reload.DoModule(): there was an error reloading the module: %s", <<"err">>))
            EXCEPT !.calls = <<get, upd, rel>>]
    ELSE [Reply(NewUserMessage("Success", "The '%s' module was reloaded", <<"module">>))
            EXCEPT !.calls = <<get, upd, rel>>]

-----------------------------------------------------------------------------
(* commands/multi/set *)

set_help(m) ==
    IF m = menu_LISTENER THEN
        NewHelp("Set a configurable option", "",
                "Use tab completion to cycle through configurable options.", "set option value")
    ELSE IF m = menu_LISTENERSETUP THEN
        NewHelp("Set a configurable option",
                "Merlin[listeners][https]> set Name Merlin Demo Listener",
                "Use tab completion to cycle through configurable options.", "set option value")
    ELSE NewHelp("set the value of a configurable module option",
                 "Merlin[modules][linux/x64/bash/exec/bash]> set Agent 1ca5e186-fadd-4b19-94ba-065ffaef9dfe",
                 "Use tab completion to cycle through configurable options.", "set key value")

\* set whose loop returns on the first element of the list: the fault C13
\* rules out
set_Menu_firstOnly(m) == <<menu_LISTENER, menu_LISTENERSETUP, menu_MODULE>>[1] = m

set_Menu(m) == InMenus(<<menu_LISTENER, menu_LISTENERSETUP, menu_MODULE>>, m)

set_DoListener(id, arguments, e) ==
    LET args == Split(arguments)
        h == set_help(menu_LISTENER)
    IN
    IF Len(args) > 1 /\ IsHelp(args[2]) THEN Reply(HelpMessage("set", h))
    ELSE IF Len(args) < 3 THEN Reply(NewUserMessage("Info", "%s", <<h.usage>>))
    ELSE RPC("ListenerSetOption", id, Tail(args), e)

\* set in the listener setup menu without the test that the option exists:
\* the fault C27 rules out
set_DoListenerSetup_noCheck(id, arguments, e) ==
    LET args == Split(arguments)
        h == set_help(menu_LISTENERSETUP)
        get == Call("listener.Get", id, <<>>)
    IN
    IF Len(args) > 1 /\ IsHelp(args[2]) THEN Reply(HelpMessage("set", h))
    ELSE IF Len(args) < 3 THEN Reply(NewUserMessage("Info", "%s", <<h.usage>>))
    ELSE IF e.failAt = 1 THEN
        [Reply(NewErrorMessage("there was an error getting the listener for ID %s: %s", <<id, "err">>))
            EXCEPT !.calls = <<get>>]
    ELSE LET upd == Call("listener.Update", id,
                         [k \in DOMAIN e.options \cup {args[2]} |->
                             IF k = args[2] THEN args[3] ELSE e.options[k]]) IN
         IF e.failAt = 2 THEN
            [Reply(NewErrorMessage("there was an error updating the '%s' option for listener ID %s: %s", <<args[2], id, "err">>))
                EXCEPT !.calls = <<get, upd>>]
         ELSE [Reply(NewUserMessage("Success", "set '%s' to: %s", <<args[2], args[3]>>))
                EXCEPT !.calls = <<get, upd>>]

set_DoListenerSetup(id, arguments, e) ==
    LET args == Split(arguments)
        h == set_help(menu_LISTENERSETUP)
        get == Call("listener.Get", id, <<>>)
    IN
    IF Len(args) > 1 /\ IsHelp(args[2]) THEN Reply(HelpMessage("set", h))
    ELSE IF Len(args) < 3 THEN Reply(NewUserMessage("Info", "%s", <<h.usage>>))
    ELSE IF e.failAt = 1 THEN
        [Reply(NewErrorMessage("there was an error getting the listener for ID %s: %s", <<id, "err">>))
            EXCEPT !.calls = <<get>>]
    ELSE IF args[2] \notin DOMAIN e.options THEN
        [Reply(NewUserMessage("Warn", "'%s' is not a valid option for this listener", <<args[2]>>))
            EXCEPT !.calls = <<get>>]
    ELSE LET upd == Call("listener.Update", id, [e.options EXCEPT ![args[2]] = args[3]]) IN
         IF e.failAt = 2 THEN
            [Reply(NewErrorMessage("there was an error updating the '%s' option for listener ID %s: %s", <<args[2], id, "err">>))
                EXCEPT !.calls = <<get, upd>>]
         ELSE [Reply(NewUserMessage("Success", "set '%s' to: %s", <<args[2], args[3]>>))
                EXCEPT !.calls = <<get, upd>>]

\* set in the module menu checking the shape of the value itself and keeping
\* a value of another shape from the repository: the fault C17 rules out
set_DoModule_validating(id, arguments, e) ==
    LET args == Split(arguments)
        h == set_help(menu_MODULE)
        upd == Call("module.UpdateOption", id, <<args[2], args[3]>>)
    IN
    IF Len(args) > 1 /\ IsHelp(args[2]) THEN Reply(HelpMessage("set", h))
    ELSE IF Len(args) < 3 THEN Reply(NewUserMessage("Info", "%s", <<h.usage>>))
    ELSE IF Len(args[3]) # 36 THEN
        Reply(NewErrorMessage("'%s' is not a valid UUID", <<args[3]>>))
    ELSE IF e.failAt = 1 THEN
        [Reply(NewErrorMessage("pkg/cli/commands/set.DoModule(): there was an error setting the '%s' to '%s': %s",
                               <<args[2], Join(SubSeq(args, 3, Len(args))), "err">>))
            EXCEPT !.calls = <<upd>>]
    ELSE [Reply(NewUserMessage("Success", "set '%s' to: %s", <<args[2], args[3]>>))
            EXCEPT !.calls = <<upd>>]

set_DoModule(id, arguments, e) ==
    LET args == Split(arguments)
        h == set_help(menu_MODULE)
        upd == Call("module.UpdateOption", id, <<args[2], args[3]>>)
    IN
    IF Len(args) > 1 /\ IsHelp(args[2]) THEN Reply(HelpMessage("set", h))
    ELSE IF Len(args) < 3 THEN Reply(NewUserMessage("Info", "%s", <<h.usage>>))
    ELSE IF e.failAt = 1 THEN
        [Reply(NewErrorMessage("pkg/cli/commands/set.DoModule(): there was an error setting the '%s' to '%s': %s",
                               <<args[2], Join(SubSeq(args, 3, Len(args))), "err">>))
            EXCEPT !.calls = <<upd>>]
    ELSE [Reply(NewUserMessage("Success", "set '%s' to: %s", <<args[2], args[3]>>))
            EXCEPT !.calls = <<upd>>]

set_Do(m, id, arguments, e) ==
    IF m = menu_LISTENER THEN set_DoListener(id, arguments, e)
    ELSE IF m = menu_LISTENERSETUP THEN set_DoListenerSetup(id, arguments, e)
    ELSE IF m = menu_MODULE THEN set_DoModule(id, arguments, e)
    ELSE Return(ZeroResponse)

-----------------------------------------------------------------------------
(* commands/agent/windows/execute_shellcode *)

execute_shellcode_help ==
    NewHelp("Execute Windows shellcode",
            "",
            "Shellcode can be provided using an absolute filepath or by pasting it directly into the terminal in one of the following formats: Hex (e.g.,. 5051525356); 0x50, 0x51, 0x52, 0x53, 0x56 with or without spaces and commas; \\x50\\x51\\x52\\x53\\x56; Base64 encoded version of the above formats; A file containing any of the above formats or just a raw byte file",
            "execute-shellcode {self|remote|RtlCreateUserThread|UserAPC} [PID] {shellcode | shellcodeFilePath}")

execute_shellcode_Menu(m) == InMenus(<<menu_AGENT>>, m)

\* parseData(str) for a one-element str.  hexString[0:2] of a string shorter
\* than two bytes is a run-time panic (slice bounds out of range).
parseData(hexString) ==
    LET b64 == B64Decode(hexString)
        h1 == IF SubSeq(hexString, 1, 2) = "0x"
              THEN Remove(Remove(Remove(hexString, "0x"), ","), " ")
              ELSE hexString
        h2 == IF SubSeq(h1, 1, 2) = "\\x"
              THEN Remove(Remove(Remove(h1, "\\x"), ","), " ")
              ELSE h1
    IN
    IF b64.ok THEN [panic |-> FALSE, ok |-> TRUE, data |-> b64.data]
    ELSE IF Len(hexString) < 2 THEN [panic |-> TRUE, ok |-> FALSE, data |-> <<>>]
    ELSE IF Len(h1) < 2 THEN [panic |-> TRUE, ok |-> FALSE, data |-> <<>>]
    ELSE [panic |-> FALSE, ok |-> HexDecode(h2).ok, data |-> HexDecode(h2).data]

\* parseShellcodeFile(filePath), the file being readable with contents e.data:
\* hex or Base64 text is decoded, anything else is taken as raw bytes
parseShellcodeFile(filePath, e) ==
    LET hexBytes == parseData(e.data) IN
    IF e.file # "file" THEN [panic |-> FALSE, ok |-> FALSE, data |-> <<>>]
    ELSE IF hexBytes.panic THEN hexBytes
    ELSE IF hexBytes.ok THEN hexBytes
    ELSE IF B64Decode(e.data).ok THEN [panic |-> FALSE, ok |-> TRUE, data |-> B64Decode(e.data).data]
    ELSE [panic |-> FALSE, ok |-> TRUE, data |-> Bytes(e.data)]

\* parse(input): [panic, ok, value or error text, the file-system calls made]
parse(input, e) ==
    IF e.file = "absent" THEN
        LET d == parseData(input) IN
        [panic |-> d.panic, ok |-> d.ok, fsops |-> <<"Stat">>,
         value |-> IF d.ok THEN B64Encode(d.data)
                   ELSE "there was an error parsing '%s' because is not a file path or hex data"]
    ELSE IF e.file = "dir" THEN
        [panic |-> FALSE, ok |-> FALSE, fsops |-> <<"Stat">>,
         value |-> "a directory was provided instead of a file: %s"]
    ELSE LET d == parseShellcodeFile(input, e) IN
        [panic |-> d.panic, ok |-> d.ok, fsops |-> <<"Stat", "ReadFile">>,
         value |-> IF d.ok THEN B64Encode(d.data)
                   ELSE "there was an error parsing the shellcode file: %s"]

\* the common tail of the four methods, the shellcode being parsed as sc:
\* report the parse error or make the RPC call
Injected(id, rest, e, sc) ==
    IF sc.panic THEN [Panic EXCEPT !.fsops = sc.fsops]
    ELSE IF ~sc.ok THEN
        [Reply(NewErrorMessage("there was an error parsing the provided shellcode: %s", <<sc.value>>))
            EXCEPT !.fsops = sc.fsops]
    ELSE [RPC("ExecuteShellcode", id, <<sc.value>> \o rest, e) EXCEPT !.fsops = sc.fsops]

\* sc, err := parse(input), evaluated once, and the tail above
Inject(id, input, rest, e) ==
    CHOOSE r \in {Injected(id, rest, e, sc) : sc \in {parse(i, e) : i \in {input}}} : TRUE

execute_shellcode_self(id, arguments, e) ==
    LET h == NewHelp("Allocates space within the Merlin Agent process and executes the shellcode",
                     "Merlin[agent][c1090dbc-f2f7-4d90-a241-86e0c0217786]> execute-shellcode self 505152535657556A605A6863616C6354594883EC28",
                     "",
                     "execute-shellcode self SHELLCODE")
        args == Split(arguments)
    IN
    IF Len(args) < 3 THEN
        Reply(NewUserMessage("Info", "'%s self' command requires at least two arguments %s", <<"execute-shellcode", h.usage>>))
    ELSE IF Len(args) > 1 /\ IsHelp(args[2]) THEN Reply(HelpMessage("execute-shellcode self", h))
    ELSE Inject(id, args[3], <<args[2]>>, e)

execute_shellcode_remote(id, arguments, e) ==
    LET h == NewHelp("Creates a thread in another process using the CreateRemoteThreadEx Windows API call.",
                     "Merlin[agent][c1090dbc-f2f7-4d90-a241-86e0c0217786]> execute-shellcode remote 6560 0x50, 0x51, 0x52, 0x53, 0x56",
                     "",
                     "execute-shellcode remote PID SHELLCODE")
        args == Split(arguments)
    IN
    IF Len(args) > 2 /\ IsHelp(args[3]) THEN Reply(HelpMessage("execute-shellcode remote", h))
    ELSE IF Len(args) < 4 THEN
        Reply(NewUserMessage("Info", "'%s remote' command requires at least two argument %s", <<"execute-shellcode", execute_shellcode_help.usage>>))
    ELSE IF ~AtoiOK(args[3]) THEN
        Reply(NewErrorMessage("there was an error converting the PID to an integer: %s", <<"invalid syntax">>))
    ELSE Inject(id, args[4], <<args[2], args[3]>>, e)

execute_shellcode_rtlCreateUserThread(id, arguments, e) ==
    LET h == NewHelp("Creates a thread in another process using the undocumented RtlCreateUserThread Windows API call.",
                     "Merlin[agent][c1090dbc-f2f7-4d90-a241-86e0c0217786]> execute-shellcode RtlCreateUserThread 6560 \\x50\\x51\\x52\\x53\\x56",
                     "",
                     "execute-shellcode rtlcreateuserthread PID SHELLCODE")
        args == Split(arguments)
    IN
    IF Len(args) > 2 /\ IsHelp(args[3]) THEN Reply(HelpMessage("execute-shellcode rtlcreateuserthread", h))
    ELSE IF Len(args) < 4 THEN
        Reply(NewUserMessage("Info", "'%s rtlcreateuserthread' command requires at least two arguments %s", <<"execute-shellcode", execute_shellcode_help.usage>>))
    ELSE IF ~AtoiOK(args[3]) THEN
        Reply(NewErrorMessage("there was an error converting the PID to an integer: %s", <<"invalid syntax">>))
    ELSE Inject(id, args[4], <<args[2], args[3]>>, e)

execute_shellcode_userAPC(id, arguments, e) ==
    LET h == NewHelp("Creates a thread in another process using the QueueUserAPC Windows API call.",
                     "Merlin[agent][c1090dbc-f2f7-4d90-a241-86e0c0217786]> execute-shellcode userapc 4824 /home/rickastley/calc.bin",
                     "This method is highly unstable and therefore was intentionally not added to the tab completion list of available methods.",
                     "execute-shellcode userapc PID SHELLCODE")
        args == Split(arguments)
    IN
    IF Len(args) > 2 /\ IsHelp(args[3]) THEN Reply(HelpMessage("execute-shellcode", h))
    ELSE IF Len(args) < 4 THEN
        Reply(NewUserMessage("Info", "'%s userapc' command requires at least two arguments %s", <<"execute-shellcode", execute_shellcode_help.usage>>))
    ELSE IF ~AtoiOK(args[3]) THEN
        Reply(NewErrorMessage("there was an error converting the PID to an integer: %s", <<"invalid syntax">>))
    ELSE Inject(id, args[4], <<args[2], args[3]>>, e)

execute_shellcode_Do(m, id, arguments, e) ==
    LET args == Split(arguments) IN
    IF Len(args) < 2 THEN
        Reply(NewUserMessage("Info", "'%s' command requires at least one argument %s", <<"execute-shellcode", execute_shellcode_help.usage>>))
    ELSE IF ToLower(args[2]) = "self" THEN execute_shellcode_self(id, arguments, e)
    ELSE IF ToLower(args[2]) = "remote" THEN execute_shellcode_remote(id, arguments, e)
    ELSE IF ToLower(args[2]) = "rtlcreateuserthread" THEN execute_shellcode_rtlCreateUserThread(id, arguments, e)
    ELSE IF ToLower(args[2]) = "userapc" THEN execute_shellcode_userAPC(id, arguments, e)
    ELSE IF IsHelp(args[2]) THEN Reply(HelpMessage("execute-shellcode", execute_shellcode_help))
    ELSE Reply(NewUserMessage("Info", "%s", <<execute_shellcode_help.usage>>))

-----------------------------------------------------------------------------
(* The commands of the repository and their resolution *)

\* every menu.Menu value, the sentinel included
AllMenus == ConcreteMenus \cup {menu_ALLMENUS}

\* reload registered under the name of set: the fault C14 rules out
reload_name_set == "set"

\* cmd.name as reload's NewCommand sets it
reload_name == "reload"

\* the command objects the repository defines, one per NewCommand: the name
\* it sets (String()) and its Menu(m) for every m
Registry ==
    << [name |-> "back", Menu |-> [m \in AllMenus |-> back_Menu(m)]],
       [name |-> "!", Menu |-> [m \in AllMenus |-> exclamation_Menu(m)]],
       [name |-> "touch", Menu |-> [m \in AllMenus |-> touch_Menu(m)]],
       [name |-> "listener", Menu |-> [m \in AllMenus |-> listener_Menu(m)]],
       [name |-> "token", Menu |-> [m \in AllMenus |-> token_Menu(m)]],
       [name |-> "netstat", Menu |-> [m \in AllMenus |-> netstat_Menu(m)]],
       [name |-> "sharpgen", Menu |-> [m \in AllMenus |-> sharpgen_Menu(m)]],
       [name |-> "execute-assembly", Menu |-> [m \in AllMenus |-> execute_assembly_Menu(m)]],
       [name |-> "jobs", Menu |-> [m \in AllMenus |-> jobs_Menu(m)]],
       [name |-> reload_name, Menu |-> [m \in AllMenus |-> reload_Menu(m)]],
       [name |-> "set", Menu |-> [m \in AllMenus |-> set_Menu(m)]],
       [name |-> "execute-shellcode", Menu |-> [m \in AllMenus |-> execute_shellcode_Menu(m)]] >>

\* the verb of a line: its first space-delimited token
FirstToken(ln) == Split(ln)[1]

\* Resolve(menu, verb): the commands of that exact name that support the menu
Resolve(m, verb) ==
    {i \in 1..Len(Registry) : Registry[i].name = verb /\ Registry[i].Menu[m]}

\* what the session records as the command when the resolver found none
NotFound == "NotFound"

\* the generic message for a verb the resolver did not find
UnknownCommand == NewUserMessage("Info", "unknown command", <<>>)

-----------------------------------------------------------------------------
(* The lines the operator types and the answers of the collaborators *)

\* every line "<name> w1 ... wn" with n <= MaxArgs words taken from words
Lines(name, words) ==
    {Join(<<name>> \o t) : t \in UNION {[1..n -> words] : n \in 0..MaxArgs}}

back_Words == {"help", "-H", "x", ""}
exclamation_Words == {"--help", "echo", "hi", "\""}
touch_Words == {"help", "a.txt", "\"", ""}
listener_Words == {"list", "start", "STOP", "-h", "tcp", "UDP", "smb", "not-an-ip:8888",
                   "127.0.0.1:7777", "0.0.0.0:", "1.2.3.4:x", "127.0.0.1"}
token_Words == {"make", "privs", "rev2self", "steal", "WhoAmI", "help", "?", "1320", "abc", "-7"}
netstat_Words == {"-p", "-P", "tcp", "help", "x"}
sharpgen_Words == {"?", "code", "\"", "spawn.exe"}
execute_assembly_Words == {"-h", "Seatbelt.exe", "\"", "args"}
jobs_Words == {"help", "x"}
reload_Words == {"HELP", "x"}
set_Words == {"help", "Name", "Agent", "Merlin", "Demo", "not-a-uuid", ""}
execute_shellcode_Words == {"self", "remote", "RtlCreateUserThread", "userapc", "help", "?",
                            "0x", "1320", "abc", "5051", "0x50,"}

\* the verbs typed that may resolve to no command: every command's name, a
\* name in another letter case and a name no command has
unknown_Verbs == {Registry[i].name : i \in 1..Len(Registry)} \cup {"BACK", "nosuch"}
unknown_Words == {"help", "x"}

Job(cmd) == [ID |-> "UjNoTALgcn", AgentID |-> TheID, Command |-> cmd,
             Status |-> "Created", Created |-> "2021-08-03T01:39:57Z", Sent |-> ""]

JobLists == {<<>>,
             <<Job("pwd")>>,
             <<Job("run whoami"), Job("shell echo 123456789012345678"), Job("shell echo 1234567890123456789"),
               Job("shell echo 1234567890123456789 and more")>>}

FileContents == {"", "A", "5051", "UFE=", "raw bytes"}

\* the API call that fails (0: none), per family of commands
RPCEnvs(n) == {[DefaultEnv EXCEPT !.failAt = f] : f \in 0..n}

\* the outcome of the local process
ProcEnvs == {[DefaultEnv EXCEPT !.proc = p] : p \in {"ok", "failed", "notstarted"}}

\* what is at the path given on the line, and the API's answer
FileEnvs ==
    {[DefaultEnv EXCEPT !.failAt = f, !.file = k] : f \in 0..1, k \in {"absent", "dir", "unreadable"}}
    \cup {[DefaultEnv EXCEPT !.failAt = f, !.file = "file", !.data = d] : f \in 0..1, d \in FileContents}

\* the jobs the server knows, and the API's answer
JobEnvs == {[DefaultEnv EXCEPT !.failAt = f, !.jobs = j] : f \in 0..1, j \in JobLists}

\* An answer nobody asked for is left at its default: e differs from
\* DefaultEnv only in what the run r of the Do consulted.
Consulted(e, r) ==
    /\ e.failAt <= Len(r.calls)
    /\ (\A i \in 1..Len(r.calls) : r.calls[i].fn = "exec.Command") => e.failAt = 0
    /\ (\A i \in 1..Len(r.calls) : r.calls[i].fn # "exec.Command") => e.proc = "ok"
    /\ r.fsops = <<>> => e.file = "absent"
    /\ (e.file # "file" \/ "ReadFile" \notin Range(r.fsops)) => e.data = ""
    /\ (\A i \in 1..Len(r.calls) : r.calls[i].fn \notin {"GetAgentActiveJobs", "GetAllActiveJobs"})
           \/ e.failAt # 0 => e.jobs = <<>>

\* the answers worth telling apart for a Do whose run with the default
\* answers is r0: a Do that consulted nobody runs the same whatever they are
EnvsFor(r0, envs) ==
    IF r0.calls = <<>> /\ r0.fsops = <<>> /\ ~r0.panic THEN {DefaultEnv} ELSE envs

-----------------------------------------------------------------------------
(* The session *)

\* the prompt the session shows in a menu
PromptOf(m) ==
    IF m = menu_MAIN THEN PromptMain
    ELSE IF m = menu_LISTENERS THEN PromptListeners
    ELSE IF m = menu_MODULES THEN PromptModules
    ELSE "Merlin[" \o ToLower(m) \o "]> "

Init ==
    /\ menu = menu_MAIN
    /\ prompt = PromptMain
    /\ command = ""
    /\ line = ""
    /\ env = DefaultEnv
    /\ response = ZeroResponse
    /\ calls = <<>>
    /\ panicked = FALSE
    /\ callMenu = menu_MAIN

\* the session took the line ln to the command name, whose Do ran as r, and
\* applied the Response: a menu in it becomes the active menu
Finish(name, ln, e, r) ==
    /\ Consulted(e, r)
    /\ command' = name
    /\ line' = ln
    /\ env' = e
    /\ response' = r.response
    /\ calls' = r.calls
    /\ panicked' = r.panic
    /\ callMenu' = menu
    /\ menu' = IF r.response.menu # NoMenu THEN r.response.menu ELSE menu
    /\ prompt' = IF r.response.menu # NoMenu THEN r.response.prompt ELSE prompt

\* a command of another package takes the session to menu m
EnterMenu(m) ==
    /\ ~panicked
    /\ command = ""
    /\ m # menu
    /\ menu' = m
    /\ prompt' = PromptOf(m)
    /\ command' = ""
    /\ line' = ""
    /\ env' = DefaultEnv
    /\ response' = ZeroResponse
    /\ calls' = <<>>
    /\ callMenu' = m
    /\ UNCHANGED panicked

\* the session printed the response and shows the prompt again
Prompt ==
    /\ ~panicked
    /\ command # ""
    /\ command' = ""
    /\ line' = ""
    /\ env' = DefaultEnv
    /\ response' = ZeroResponse
    /\ calls' = <<>>
    /\ callMenu' = menu
    /\ UNCHANGED <<menu, prompt, panicked>>

Type_back ==
    /\ ~panicked /\ command = "" /\ back_Menu(menu)
    /\ \E ln \in Lines("back", back_Words) :
          \E e \in EnvsFor(back_Do(menu, TheID, ln, DefaultEnv), RPCEnvs(0)) :
              Finish("back", ln, e, back_Do(menu, TheID, ln, e))

Type_exclamation ==
    /\ ~panicked /\ command = "" /\ exclamation_Menu(menu)
    /\ \E ln \in Lines("!", exclamation_Words) :
          \E e \in EnvsFor(exclamation_Do(menu, TheID, ln, DefaultEnv), ProcEnvs) :
              Finish("!", ln, e, exclamation_Do(menu, TheID, ln, e))

Type_touch ==
    /\ ~panicked /\ command = "" /\ touch_Menu(menu)
    /\ \E ln \in Lines("touch", touch_Words) :
          \E e \in EnvsFor(touch_Do(menu, TheID, ln, DefaultEnv), RPCEnvs(1)) :
              Finish("touch", ln, e, touch_Do(menu, TheID, ln, e))

Type_listener ==
    /\ ~panicked /\ command = "" /\ listener_Menu(menu)
    /\ \E ln \in Lines("listener", listener_Words) :
          \E e \in EnvsFor(listener_Do(menu, TheID, ln, DefaultEnv), RPCEnvs(1)) :
              Finish("listener", ln, e, listener_Do(menu, TheID, ln, e))

Type_token ==
    /\ ~panicked /\ command = "" /\ token_Menu(menu)
    /\ \E ln \in Lines("token", token_Words) :
          \E e \in EnvsFor(token_Do(menu, TheID, ln, DefaultEnv), RPCEnvs(1)) :
              Finish("token", ln, e, token_Do(menu, TheID, ln, e))

Type_netstat ==
    /\ ~panicked /\ command = "" /\ netstat_Menu(menu)
    /\ \E ln \in Lines("netstat", netstat_Words) :
          \E e \in EnvsFor(netstat_Do(menu, TheID, ln, DefaultEnv), RPCEnvs(1)) :
              Finish("netstat", ln, e, netstat_Do(menu, TheID, ln, e))

Type_sharpgen ==
    /\ ~panicked /\ command = "" /\ sharpgen_Menu(menu)
    /\ \E ln \in Lines("sharpgen", sharpgen_Words) :
          \E e \in EnvsFor(sharpgen_Do(menu, TheID, ln, DefaultEnv), RPCEnvs(1)) :
              Finish("sharpgen", ln, e, sharpgen_Do(menu, TheID, ln, e))

Type_execute_assembly ==
    /\ ~panicked /\ command = "" /\ execute_assembly_Menu(menu)
    /\ \E ln \in Lines("execute-assembly", execute_assembly_Words) :
          \E e \in EnvsFor(execute_assembly_Do(menu, TheID, ln, DefaultEnv), FileEnvs) :
              Finish("execute-assembly", ln, e, execute_assembly_Do(menu, TheID, ln, e))

Type_jobs ==
    /\ ~panicked /\ command = "" /\ jobs_Menu(menu)
    /\ \E ln \in Lines("jobs", jobs_Words) :
          \E e \in EnvsFor(jobs_Do(menu, TheID, ln, DefaultEnv), JobEnvs) :
              Finish("jobs", ln, e, jobs_Do(menu, TheID, ln, e))

Type_reload ==
    /\ ~panicked /\ command = "" /\ reload_Menu(menu)
    /\ \E ln \in Lines("reload", reload_Words) :
          \E e \in EnvsFor(reload_Do(menu, TheID, ln, DefaultEnv), RPCEnvs(3)) :
              Finish("reload", ln, e, reload_Do(menu, TheID, ln, e))

Type_set ==
    /\ ~panicked /\ command = "" /\ set_Menu(menu)
    /\ \E ln \in Lines("set", set_Words) :
          \E e \in EnvsFor(set_Do(menu, TheID, ln, DefaultEnv), RPCEnvs(2)) :
              Finish("set", ln, e, set_Do(menu, TheID, ln, e))

Type_execute_shellcode ==
    /\ ~panicked /\ command = "" /\ execute_shellcode_Menu(menu)
    /\ \E ln \in Lines("execute-shellcode", execute_shellcode_Words) :
          \E e \in EnvsFor(execute_shellcode_Do(menu, TheID, ln, DefaultEnv), FileEnvs) :
              Finish("execute-shellcode", ln, e, execute_shellcode_Do(menu, TheID, ln, e))

\* the resolver finds no command for the verb of the line in the active menu:
\* no Do runs and the session shows the unknown-command message
Type_unknown ==
    /\ ~panicked /\ command = ""
    /\ \E verb \in unknown_Verbs :
          /\ Resolve(menu, verb) = {}
          /\ \E ln \in Lines(verb, unknown_Words) :
                Finish(NotFound, ln, DefaultEnv, Reply(UnknownCommand))

Next ==
    \/ \E m \in ConcreteMenus : EnterMenu(m)
    \/ Prompt
    \/ Type_back
    \/ Type_exclamation
    \/ Type_touch
    \/ Type_listener
    \/ Type_token
    \/ Type_netstat
    \/ Type_sharpgen
    \/ Type_execute_assembly
    \/ Type_jobs
    \/ Type_reload
    \/ Type_set
    \/ Type_execute_shellcode
    \/ Type_unknown

Spec == Init /\ [][Next]_vars

-----------------------------------------------------------------------------
(* The claims.  Each is read in the state a Do left behind: command and line
   are what was typed, callMenu the menu Do was called in, response, calls
   and panicked what the Do produced. *)

\* a Do has run and its response is on display
Typed == command \notin {"", NotFound}

\* args := strings.Split(arguments, " "), and the Go arg[k] of it ("" if absent)
NArgs == Len(Split(line))

Arg(k) == LET args == Split(line) IN IF Len(args) > k THEN args[k + 1] ELSE ""

Level == response.message.level

HelpFormat == HelpMessage("", back_help).fmt

\* msg is the help text of h: its description, usage, example and notes
IsHelpText(msg, h) ==
    /\ msg.level = "Info"
    /\ msg.fmt = HelpFormat
    /\ Len(msg.args) = 5
    /\ SubSeq(msg.args, 2, 5) = <<h.description, h.usage, h.example, h.notes>>

CommandHelp ==
    IF command = "back" THEN back_help
    ELSE IF command = "!" THEN exclamation_help
    ELSE IF command = "touch" THEN touch_help
    ELSE IF command = "listener" THEN listener_help
    ELSE IF command = "token" THEN token_help
    ELSE IF command = "netstat" THEN netstat_help
    ELSE IF command = "sharpgen" THEN sharpgen_help
    ELSE IF command = "execute-assembly" THEN execute_assembly_help
    ELSE IF command = "jobs" THEN jobs_help
    ELSE IF command = "reload" THEN reload_help
    ELSE IF command = "set" THEN set_help(callMenu)
    ELSE execute_shellcode_help

\* the first argument after the command name is a help alias
HelpAsked == NArgs > 1 /\ IsHelp(Arg(1))

\* C1: for every command and every menu it supports, a line whose first
\* argument token is a help alias (any letter case) gets an Info message with
\* the command's description, usage, example and notes, no RPC or repository
\* call and no menu change, whatever follows the alias.
C1_HelpFirst ==
    (Typed /\ HelpAsked) =>
        /\ ~panicked
        /\ IsHelpText(response.message, CommandHelp)
        /\ calls = <<>>
        /\ response.menu = NoMenu

\* C2: no Do aborts the process, whatever the line and the menu; in
\* particular execute-shellcode answers an undecodable shellcode argument of
\* any length with an Error message.
C2_NoPanic ==
    /\ ~panicked
    /\ (Typed /\ command = "execute-shellcode" /\ ToLower(Arg(1)) = "self" /\ NArgs = 3
            /\ env.file = "absent" /\ Arg(2) \in {"?", "0x"}) => Level = "Error"

\* the sub-verbs of the commands that have them
SubVerbs ==
    IF command = "listener" THEN {"list", "start", "stop"}
    ELSE IF command = "token" THEN {"make", "privs", "rev2self", "steal", "whoami"}
    ELSE IF command = "execute-shellcode" THEN {"self", "remote", "rtlcreateuserthread", "userapc"}
    ELSE {}

\* the token directly after a sub-verb is a help alias
SubVerbHelpAsked == NArgs > 2 /\ ToLower(Arg(1)) \in SubVerbs /\ IsHelp(Arg(2))

\* C3: for every sub-verb of listener, token and execute-shellcode, a help
\* alias directly after the sub-verb gets the Info help message of that
\* sub-verb and no RPC call, before the sub-verb's arity and type validation.
C3_SubVerbHelpFirst ==
    (Typed /\ SubVerbHelpAsked) =>
        /\ ~panicked
        /\ Level = "Info"
        /\ response.message.fmt = HelpFormat
        /\ calls = <<>>

\* the words Do counts: shellwords.Parse for the commands that use it,
\* strings.Split for the others
ShellwordsCommands == {"!", "touch", "sharpgen", "execute-assembly"}

Words == IF command \in ShellwordsCommands THEN ShellwordsParse(line).args ELSE Split(line)

WordsParsed == command \in ShellwordsCommands => ~ShellwordsParse(line).err

Verb == IF Len(Words) > 1 THEN ToLower(Words[2]) ELSE ""

\* the number of words, the command name included, that the command or
\* sub-verb requires (0: no required argument)
Required ==
    IF command \in {"touch", "set"} THEN 3
    ELSE IF command = "listener" /\ Verb \in {"start", "stop"} THEN 4
    ELSE IF command = "token" /\ Verb = "make" THEN 4
    ELSE IF command = "token" /\ Verb = "steal" THEN 3
    ELSE IF command = "execute-shellcode" /\ Verb = "self" THEN 3
    ELSE IF command = "execute-shellcode" /\ Verb \in {"remote", "rtlcreateuserthread", "userapc"} THEN 4
    ELSE IF command \in {"execute-shellcode", "sharpgen", "execute-assembly", "!"} THEN 2
    ELSE 0

NoHelpAlias == \A i \in 2..Len(Words) : ~IsHelp(Words[i])

\* the message ends with a usage string: the command's own or a sub-verb's
CarriesUsage ==
    /\ response.message.args # <<>>
    /\ LET u == response.message.args[Len(response.message.args)] IN
           \/ u = CommandHelp.usage
           \/ Len(u) > Len(command) /\ SubSeq(u, 1, Len(command) + 1) = command \o " "

\* C4: a command or sub-verb with required arguments that is given fewer of
\* them, and no help alias, answers with an Info message carrying a usage
\* string and makes no RPC call.
C4_TooFewArguments ==
    (Typed /\ WordsParsed /\ Len(Words) < Required /\ NoHelpAlias) =>
        /\ ~panicked
        /\ Level = "Info"
        /\ CarriesUsage
        /\ calls = <<>>

\* the sub-verbs that take a PID as the token after the sub-verb
PidVerb ==
    \/ command = "execute-shellcode" /\ ToLower(Arg(1)) \in {"remote", "rtlcreateuserthread", "userapc"}
    \/ command = "token" /\ ToLower(Arg(1)) = "steal"

\* the sub-verb got the arguments it requires, the PID among them, and no
\* help alias in the PID's place
PidGiven ==
    /\ PidVerb
    /\ NArgs >= (IF command = "token" THEN 3 ELSE 4)
    /\ ~IsHelp(Arg(2))

\* C5: for execute-shellcode remote, rtlcreateuserthread and userapc and for
\* token steal, a PID argument that is not an integer gets an Error message
\* and zero RPC calls; an RPC call is made only after the PID parsed as an
\* integer.
C5_PidIsInteger ==
    (Typed /\ PidVerb) =>
        /\ (PidGiven /\ ~AtoiOK(Arg(2))) => (Level = "Error" /\ calls = <<>>)
        /\ calls # <<>> => (NArgs > 2 /\ AtoiOK(Arg(2)))

C5_Witness ==
    /\ Typed /\ command = "execute-shellcode" /\ Arg(1) = "remote" /\ NArgs = 4
    /\ Arg(2) = "abc" /\ Arg(3) = "5051"
    /\ Level = "Error" /\ calls = <<>>

\* C6: for token privs, a PID that is given and is not an integer gets an
\* Error message and no RPC call; rpc.Token is reached only with no PID or
\* with an integer PID.
C6_PrivsPidIsInteger ==
    (Typed /\ command = "token" /\ ToLower(Arg(1)) = "privs" /\ NArgs > 2 /\ ~IsHelp(Arg(2))
           /\ ~AtoiOK(Arg(2))) =>
        (Level = "Error" /\ calls = <<>>)

\* listener start|stop with protocol tcp or udp and an address
ListenerAddress ==
    /\ command = "listener"
    /\ ToLower(Arg(1)) \in {"start", "stop"}
    /\ ToLower(Arg(2)) \in {"tcp", "udp"}
    /\ NArgs > 3

\* the host part of an address: what precedes its first colon
HostPart(addr) == SplitColon(addr)[1]

\* C7: for listener start|stop with protocol tcp or udp (any letter case), an
\* address whose host part is not a parsable IP address gets an Error message
\* and zero RPC calls.
C7_HostIsIP ==
    (Typed /\ ListenerAddress /\ ~ParseIP(HostPart(Arg(3)))) =>
        (~panicked /\ Level = "Error" /\ calls = <<>>)

C7_Witness ==
    /\ Typed /\ line = "listener start UDP not-an-ip:8888"
    /\ Level = "Error" /\ calls = <<>>

\* an interface:port pair: an IP address, one colon, a decimal port
WellFormedAddress(addr) ==
    /\ Len(SplitColon(addr)) = 2
    /\ ParseIP(SplitColon(addr)[1])
    /\ IsDigits(SplitColon(addr)[2])

\* C8: for listener start|stop with protocol tcp or udp, the RPC call is made
\* only for a well-formed interface:port pair; a missing, empty or
\* non-numeric port gets an Error message and zero RPC calls.
C8_PortIsNumber ==
    (Typed /\ ListenerAddress /\ ~WellFormedAddress(Arg(3))) =>
        (Level = "Error" /\ calls = <<>>)

C10_BackIsSilent ==
    (Typed /\ command = "back") =>
        /\ ~HelpAsked =>
              /\ response.message = NoMessage
              /\ \/ response.menu = menu_LISTENERS /\ response.prompt = PromptListeners
                 \/ response.menu = menu_MODULES /\ response.prompt = PromptModules
                 \/ response.menu = menu_MAIN /\ response.prompt = PromptMain
        /\ ~(response.message # NoMessage /\ response.menu # NoMenu)

C10_Witness ==
    /\ Typed /\ command = "back" /\ line = "back x" /\ callMenu = menu_MODULE
    /\ response = [message |-> NoMessage, menu |-> menu_MODULES, prompt |-> PromptModules]

\* C11: starting from MAIN and applying the Response of every dispatched
\* command, the active menu is always one of the concrete menus and never the
\* ALLMENUS sentinel; no Do returns ALLMENUS as the menu to go to.
C11_MenuIsConcrete ==
    /\ menu \in ConcreteMenus
    /\ menu # menu_ALLMENUS
    /\ response.menu # menu_ALLMENUS

C11_Witness ==
    /\ Typed /\ command = "back" /\ callMenu = menu_LISTENER
    /\ response.menu = menu_LISTENERS /\ menu = menu_LISTENERS

\* the menus each command is listed for, as the claims state them
StatedMenus(name) ==
    IF name \in {"back", "!"} THEN AllMenus
    ELSE IF name = "jobs" THEN {menu_AGENT, menu_MAIN}
    ELSE IF name = "set" THEN {menu_LISTENER, menu_LISTENERSETUP, menu_MODULE}
    ELSE IF name = "reload" THEN {menu_MODULE}
    ELSE IF name \in {"touch", "listener", "token", "netstat", "sharpgen",
                      "execute-assembly", "execute-shellcode"} THEN {menu_AGENT}
    ELSE {}

\* C12: a line whose first token names a command that does not support the
\* current menu has the outcome of a line whose first token names no command:
\* the Info-level unknown-command Response, no Do invoked (so no call), and
\* the active menu unchanged.
C12_UnsupportedIsUnknown ==
    (line # "" /\ callMenu \notin StatedMenus(FirstToken(line))) =>
        /\ command = NotFound
        /\ response = [ZeroResponse EXCEPT !.message = UnknownCommand]
        /\ Level = "Info"
        /\ calls = <<>>
        /\ ~panicked
        /\ menu = callMenu

C12_Witness ==
    /\ line = "jobs help" /\ callMenu = menu_MODULE /\ menu = menu_MODULE
    /\ command = NotFound /\ Level = "Info" /\ calls = <<>>

\* C13: for every command and every menu m, Menu(m) is true iff m is in the
\* command's menus list or the list holds ALLMENUS: back and ! for every menu,
\* jobs for AGENT and MAIN, set for LISTENER, LISTENERSETUP and MODULE, reload
\* for MODULE, the agent commands for AGENT; so a Do only ever runs in a menu
\* of its command's list.
C13_MenuMembership ==
    /\ \A i \in 1..Len(Registry) : \A m \in AllMenus :
           Registry[i].Menu[m] <=> m \in StatedMenus(Registry[i].name)
    /\ Typed => callMenu \in StatedMenus(command)

C13_Witness ==
    /\ Typed /\ command = "set" /\ callMenu = menu_LISTENERSETUP
    /\ Registry[11].name = "set" /\ Registry[11].Menu[menu_LISTENERSETUP]
    /\ ~Registry[11].Menu[menu_MAIN]

\* the commands that support the menu m
Supporting(m) == {i \in 1..Len(Registry) : Registry[i].Menu[m]}

\* C14: among the commands of the repository, in every concrete menu the
\* session is in, no two commands that support the menu have the same name
\* (as many names as commands), so resolving a (menu, verb) pair by exact name
\* match yields at most one command.
C14_NamesUnique ==
    /\ Cardinality({Registry[i].name : i \in Supporting(callMenu)}) = Cardinality(Supporting(callMenu))
    /\ line # "" => Cardinality(Resolve(callMenu, FirstToken(line))) <= 1

C14_Witness ==
    /\ Typed /\ command = "set" /\ callMenu = menu_MODULE
    /\ Cardinality(Resolve(callMenu, FirstToken(line))) = 1
    /\ Cardinality(Supporting(callMenu)) = 4

\* the functions of the RPC layer (package services/rpc) the commands call
RPCFunctions == {"Touch", "Listener", "Token", "Netstat", "SharpGen", "ExecuteAssembly",
                 "ExecuteShellcode", "GetAgentActiveJobs", "GetAllActiveJobs",
                 "ListenerSetOption"}

IsRPCCall(c) == c.fn \in RPCFunctions

RPCCalls == SelectSeq(calls, IsRPCCall)

\* C15: every Do makes at most one call of the RPC layer, on every path, and
\* the jobs command, when it is not asked for help, calls exactly one of
\* GetAgentActiveJobs and GetAllActiveJobs.
C15_AtMostOneRPC ==
    Typed =>
        /\ Len(RPCCalls) <= 1
        /\ (command = "jobs" /\ ~HelpAsked) =>
               /\ Len(calls) = 1
               /\ calls[1].fn \in {"GetAgentActiveJobs", "GetAllActiveJobs"}

C15_Witness ==
    /\ Typed /\ command = "jobs" /\ ~HelpAsked /\ callMenu = menu_AGENT
    /\ Len(calls) = 1 /\ calls[1].fn = "GetAgentActiveJobs"

\* the whole text typed after the option name
ValueText == Join(SubSeq(Split(line), 3, NArgs))

\* C16: in the LISTENERSETUP menu, set <option> <value> for a valid option
\* stores the whole value text typed after the option name, spaces included,
\* and reports that full value: 'set Name Merlin Demo Listener' sets Name to
\* 'Merlin Demo Listener'.
C16_WholeValueStored ==
    (Typed /\ command = "set" /\ callMenu = menu_LISTENERSETUP /\ NArgs > 2 /\ ~HelpAsked
           /\ Arg(1) \in DOMAIN env.options /\ env.failAt = 0) =>
        /\ Level = "Success"
        /\ response.message.args = <<Arg(1), ValueText>>
        /\ Len(calls) = 2
        /\ calls[2] = Call("listener.Update", TheID, [env.options EXCEPT ![Arg(1)] = ValueText])

\* C17: in the MODULE menu, set <key> <value> with at least two arguments and
\* no help alias checks nothing about the value's shape and reaches the
\* option-update collaborator exactly once with (id, key, value); the Response
\* is Error-level if that call fails and Success-level otherwise.
C17_ModuleSetForwards ==
    (Typed /\ command = "set" /\ callMenu = menu_MODULE /\ NArgs > 2 /\ ~HelpAsked) =>
        /\ calls = <<Call("module.UpdateOption", TheID, <<Arg(1), Arg(2)>>)>>
        /\ Level = (IF env.failAt = 1 THEN "Error" ELSE "Success")

C17_Witness ==
    /\ Typed /\ callMenu = menu_MODULE /\ line = "set Agent not-a-uuid" /\ env.failAt = 1
    /\ calls = <<Call("module.UpdateOption", TheID, <<"Agent", "not-a-uuid">>)>>
    /\ Level = "Error"

\* the place of the shellcode among the Go args of execute-shellcode
ShellcodeIndex == IF ToLower(Arg(1)) = "self" THEN 2 ELSE 3

\* execute-shellcode got a method, the PID the method needs and shellcode
\* that is not the path of a file
ShellcodeGiven ==
    /\ command = "execute-shellcode"
    /\ env.file = "absent"
    /\ \/ ToLower(Arg(1)) = "self" /\ NArgs >= 3
       \/ /\ ToLower(Arg(1)) \in {"remote", "rtlcreateuserthread", "userapc"}
          /\ NArgs >= 4
          /\ AtoiOK(Arg(2))

IsHexDigits(s) == \A i \in 1..Len(s) : HexVal(At(s, i)) >= 0

\* C18: shellcode given to execute-shellcode as a plain string of hex digits
\* of even length is decoded as the bytes the digits denote: element 0 of the
\* RPC argument list is the Base64 encoding of exactly those bytes.
C18_HexIsDecodedAsHex ==
    (Typed /\ ShellcodeGiven /\ NArgs = ShellcodeIndex + 1
           /\ Len(Arg(ShellcodeIndex)) % 2 = 0 /\ IsHexDigits(Arg(ShellcodeIndex))) =>
        /\ ~panicked
        /\ Len(calls) = 1
        /\ calls[1].fn = "ExecuteShellcode"
        /\ calls[1].args[1] = B64Encode(HexDecode(Arg(ShellcodeIndex)).data)

\* the tokens typed from the shellcode's place to the end of the line
ShellcodeTokens == SubSeq(Split(line), ShellcodeIndex + 1, NArgs)

\* one byte in the 0x form, with or without the comma after it
IsByteToken(t) ==
    /\ Len(t) \in 4..5
    /\ SubSeq(t, 1, 2) = "0x"
    /\ HexVal(At(t, 3)) >= 0
    /\ HexVal(At(t, 4)) >= 0
    /\ Len(t) = 5 => At(t, 5) = ","

\* every byte typed on the line in the 0x form
TypedBytes == HexDecode(Remove(Remove(Remove(Join(ShellcodeTokens), "0x"), ","), " ")).data

\* C19: shellcode typed on the execute-shellcode line in the '0x50, 0x51,
\* 0x52' form, spaces and commas between the bytes, is forwarded in full: the
\* data sent to RPC encodes every byte typed, not only the first token.
C19_AllBytesForwarded ==
    (Typed /\ ShellcodeGiven /\ \A i \in 1..Len(ShellcodeTokens) : IsByteToken(ShellcodeTokens[i])) =>
        /\ ~panicked
        /\ Len(calls) = 1
        /\ calls[1].fn = "ExecuteShellcode"
        /\ calls[1].args[1] = B64Encode(TypedBytes)

\* C20: the ! command, given at least one shell-word argument of which the
\* first is no help alias, runs exactly one local process (the first argument
\* as the program, the remaining shell-word tokens as its arguments), returns
\* a Success message with the captured output when the process ran without
\* error and a Warn message otherwise, asks for no menu change and makes no
\* RPC call.
C20_LocalProcess ==
    (Typed /\ command = "!" /\ WordsParsed /\ Len(Words) >= 2 /\ ~IsHelp(Words[2])) =>
        /\ calls = <<Call("exec.Command", "", Tail(Words))>>
        /\ Level = (IF env.proc = "ok" THEN "Success" ELSE "Warn")
        /\ "stdout" \in Range(response.message.args)
        /\ response.menu = NoMenu
        /\ menu = callMenu
        /\ RPCCalls = <<>>

C20_Witness ==
    /\ Typed /\ line = "! echo hi" /\ env.proc = "failed"
    /\ calls = <<Call("exec.Command", "", <<"echo", "hi">>)>>
    /\ Level = "Warn" /\ response.menu = NoMenu

\* C21: jobs asks the server once, for the agent's jobs in the agent menu
\* and for all jobs in any other menu; when the call fails it answers with an
\* Error message that carries no table and does not ask again, and when the
\* call succeeds it answers with a Plain message that carries the table.
JobsAsk ==
    IF callMenu = menu_AGENT THEN Call("GetAgentActiveJobs", TheID, <<>>)
    ELSE Call("GetAllActiveJobs", "", <<>>)

C21_JobsAsksOnce ==
    (Typed /\ command = "jobs" /\ ~HelpAsked) =>
        /\ calls = <<JobsAsk>>
        /\ env.failAt = 1 => (Level = "Error" /\ response.message.table = <<>>)
        /\ env.failAt = 0 => (Level = "Plain" /\ Len(response.message.table) = Len(env.jobs) + 1)

C21_Witness ==
    /\ Typed /\ command = "jobs" /\ ~HelpAsked /\ callMenu = menu_AGENT
    /\ env.failAt = 1 /\ Level = "Error" /\ response.message.table = <<>>
    /\ calls = <<Call("GetAgentActiveJobs", TheID, <<>>)>>

\* C22: in the table of jobs, the Command cell of every row is the prefix of
\* the job's command of length min(len(command), 30): a command shorter than
\* 30 characters is shown whole, a longer one is cut to its first 30.
JobsCommandColumn == IF callMenu = menu_AGENT THEN 2 ELSE 3

PrefixLength(cmd) == IF Len(cmd) <= 30 THEN Len(cmd) ELSE 30

C22_CommandCellIsPrefix ==
    (Typed /\ command = "jobs" /\ ~HelpAsked /\ env.failAt = 0) =>
        /\ Len(response.message.table) = Len(env.jobs) + 1
        /\ \A i \in 1..Len(env.jobs) :
              response.message.table[i + 1][JobsCommandColumn] =
                  SubSeq(env.jobs[i].Command, 1, PrefixLength(env.jobs[i].Command))

C22_Witness ==
    /\ Typed /\ command = "jobs" /\ ~HelpAsked /\ env.failAt = 0
    /\ Len(env.jobs) = 4
    /\ Len(env.jobs[2].Command) = 29 /\ response.message.table[3][JobsCommandColumn] = env.jobs[2].Command
    /\ Len(env.jobs[3].Command) = 30 /\ response.message.table[4][JobsCommandColumn] = env.jobs[3].Command
    /\ Len(env.jobs[4].Command) > 30
    /\ response.message.table[5][JobsCommandColumn] = "shell echo 1234567890123456789"

\* C24: back (without a help alias) takes every menu to MAIN in at most two
\* steps: LISTENERSETUP and LISTENER go to LISTENERS, MODULE goes to MODULES,
\* every other menu goes to MAIN, and back in MAIN stays in MAIN. BackDistance
\* is the number of steps the claim allows from a menu; each back lowers it
\* by one until it is 0, in MAIN.
BackDistance(m) ==
    IF m = menu_MAIN THEN 0
    ELSE IF m \in {menu_LISTENERSETUP, menu_LISTENER, menu_MODULE} THEN 2
    ELSE 1

C25_OnlyBackChangesMenu ==
    [][(command' \notin {"", "back", NotFound}) =>
          /\ response'.menu = NoMenu /\ response'.prompt = ""
          /\ menu' = menu /\ prompt' = prompt]_vars

C25_Witness ==
    /\ Typed /\ command = "reload" /\ Level = "Success"
    /\ response.menu = NoMenu /\ response.prompt = ""
    /\ menu = menu_MODULE /\ callMenu = menu_MODULE /\ prompt = PromptOf(menu_MODULE)

\* C26: netstat (without a help alias) calls the RPC layer only when it has
\* no argument or when its first argument is '-p' followed by a protocol
\* value; '-p' alone is answered with a Warn message and no RPC call; any
\* other first argument is answered with the Info usage text and no RPC call.
NetstatP == NArgs > 1 /\ ToLower(Arg(1)) = "-p"

C26_NetstatValidates ==
    (Typed /\ command = "netstat" /\ ~HelpAsked) =>
        /\ calls # <<>> => (NArgs = 1 \/ (NetstatP /\ NArgs > 2))
        /\ (NetstatP /\ NArgs = 2) => (Level = "Warn" /\ calls = <<>>)
        /\ (NArgs > 1 /\ ~NetstatP) =>
              (Level = "Info" /\ response.message.args = <<netstat_help.usage>> /\ calls = <<>>)

\* C27: in the listener setup menu, set with a name that is not an option of
\* the listener is answered with a Warn message and never calls the
\* repository's Update; Update is called only when the lookup succeeded and
\* the option exists; a failed lookup is answered with an Error message and
\* no Update.
SetupSet == Typed /\ command = "set" /\ callMenu = menu_LISTENERSETUP

ListenerUpdates == {i \in 1..Len(calls) : calls[i].fn = "listener.Update"}

C27_SetupSetValidates ==
    SetupSet =>
        /\ ListenerUpdates # {} =>
              (~HelpAsked /\ NArgs > 2 /\ env.failAt # 1 /\ Arg(1) \in DOMAIN env.options)
        /\ (~HelpAsked /\ NArgs > 2 /\ env.failAt = 1) =>
              (Level = "Error" /\ calls = <<Call("listener.Get", TheID, <<>>)>>)
        /\ (~HelpAsked /\ NArgs > 2 /\ env.failAt # 1 /\ Arg(1) \notin DOMAIN env.options) =>
              (Level = "Warn" /\ calls = <<Call("listener.Get", TheID, <<>>)>>)

C27_Witness ==
    /\ SetupSet /\ line = "set Agent Merlin" /\ env.failAt = 0
    /\ Level = "Warn" /\ response.message.args = <<"Agent">>
    /\ calls = <<Call("listener.Get", TheID, <<>>)>>

\* C28: reload (without a help alias) takes its steps in the order get the
\* module, reset the module's 'agent' option to the empty string, reload the
\* module; a step that fails is answered with an Error message and no later
\* step is taken; the Success message 'module was reloaded' is returned only
\* after all three steps succeeded.
ReloadSteps ==
    << Call("module.Get", TheID, <<>>),
       Call("module.UpdateOption", TheID, <<"agent", "">>),
       Call("module.Reload", TheID, <<>>) >>

C28_ReloadInOrder ==
    (Typed /\ command = "reload" /\ ~HelpAsked) =>
        /\ Len(calls) \in 1..3 /\ calls = SubSeq(ReloadSteps, 1, Len(calls))
        /\ env.failAt \in 1..3 => (Level = "Error" /\ Len(calls) = env.failAt)
        /\ env.failAt = 0 =>
              (Level = "Success" /\ calls = ReloadSteps
                 /\ response.message.fmt = "The '%s' module was reloaded")
        /\ Level \in {"Error", "Success"}

C28_Witness ==
    /\ Typed /\ command = "reload" /\ ~HelpAsked /\ env.failAt = 2
    /\ Level = "Error"
    /\ calls = << Call("module.Get", TheID, <<>>), Call("module.UpdateOption", TheID, <<"agent", "">>) >>

\* C29: execute-assembly sends to RPC exactly four strings, in the order
\* Base64 of the bytes of the assembly file, the assembly's arguments, the
\* spawnTo path, the spawnTo arguments, with the empty string, the default
\* dllhost.exe path and the empty string in the place of trailing arguments
\* left out; when the assembly path does not exist or cannot be read the
\* answer is an Error message and no RPC call is made.
AssemblyWords == ShellwordsParse(line)

AssemblyGiven ==
    /\ Typed /\ command = "execute-assembly"
    /\ LET p == AssemblyWords IN ~p.err /\ Len(p.args) > 1 /\ ~IsHelp(p.args[2])

C29_AssemblyArguments ==
    (Typed /\ command = "execute-assembly") =>
        LET p == AssemblyWords
            word(k, default) == IF Len(p.args) >= k THEN p.args[k] ELSE default
        IN
        (~p.err /\ Len(p.args) > 1 /\ ~IsHelp(p.args[2])) =>
            IF env.file = "file"
            THEN calls = << Call("ExecuteAssembly", TheID,
                                 << B64Encode(Bytes(env.data)), word(3, ""),
                                    word(4, "C:\\WIndows\\System32\\dllhost.exe"), word(5, "") >>) >>
            ELSE Level = "Error" /\ calls = <<>>

C29_Witness ==
    /\ AssemblyGiven /\ line = "execute-assembly Seatbelt.exe args" /\ env.file = "file"
    /\ env.data = "A"
    /\ Len(calls) = 1 /\ calls[1].fn = "ExecuteAssembly" /\ Len(calls[1].args) = 4
    /\ calls[1].args[1] = "QQ=="
    /\ calls[1].args[2] = "args"
    /\ calls[1].args[3] = "C:\\WIndows\\System32\\dllhost.exe"
    /\ calls[1].args[4] = ""

\* C30: every command run from a menu its Menu admits returns a Response that
\* carries a message or a menu change, on every path; the Response with
\* neither is returned only by set outside LISTENER, LISTENERSETUP and MODULE,
\* where set's Menu never admits it.
C30_NeverSilent ==
    Typed => (response.message # NoMessage \/ response.menu # NoMenu)

=============================================================================
